---- MODULE Spec2Model ----
(***************************************************************************)
(* EcoLink supply-chain contracts: SupplyChainBatch (batch registry),      *)
(* GoodwillToken (reward ledger), DonationVerifier (double handshake) and  *)
(* ExpiryKeeper (expiry scanner), as one state machine.  Every external    *)
(* call is one atomic step (one transaction); a call whose require fails   *)
(* reverts: it leaves every contract variable as it was and only the       *)
(* transaction record `last` shows that it was submitted.                  *)
(* Time is counted in days (block.timestamp / 1 days).                     *)
(***************************************************************************)
EXTENDS Integers, Sequences, FiniteSets, TLC

\* ------------------------------------------------------------------ bounds
MaxBatches == 2
DonationBatches == 1
MaxDonations == 2
DeployTime == 178
MaxTicks == 4
MaxSupply == 6
MaxReceipts == 2
MaxCerts == 2
SweepMax == 120

\* ------------------------------------------------------- program constants
ThreeDays == 3
ThirtyDays == 30
NinetyDays == 90
CO2_FACTOR == 25
NGO_REFERRAL_PERCENT == 10
InitialCheckBatchSize == 50
MaxCheckBatchSize == 100
YEAR == 2026

\* --------------------------------------------------------------- addresses
Null == "0x0"
Admin == "admin"
VerifierAddr == "verifier"
KeeperAddr == "keeper"
TokenAddr == "token"
Automation == "automation"
Maker == "maker"
Users == {"u1", "u2"}
EOAs == Users \cup {Admin, Maker, Automation}
Addresses == EOAs \cup {Null, VerifierAddr, KeeperAddr, TokenAddr}

\* enum Status, by its numeric value
MANUFACTURED == 0
IN_RETAIL == 1
NEAR_EXPIRY == 2
READY_FOR_DONATION == 3
DONATED == 4
EXPIRED == 5

VARIABLES
    now,                 \* block.timestamp, in days
    batches,             \* SupplyChainBatch.batches, on the ids written so far
    nextBatchId,         \* SupplyChainBatch.nextBatchId
    authorizedOracles,   \* SupplyChainBatch.authorizedOracles (the set mapped to true)
    batchToken,          \* ERC-1155 holder of the single unit of each batch id
    balances,            \* GoodwillToken (ERC-20) balances
    totalSupply,         \* GoodwillToken (ERC-20) total supply
    authorizedMinters,   \* GoodwillToken.authorizedMinters (the set mapped to true)
    stakes,              \* GoodwillToken.stakes
    taxReceipts,         \* GoodwillToken.taxReceipts
    certificates,        \* ESGSoulbound.certificates, on the ids written so far
    certOwner,           \* ESGSoulbound (ERC-721) owner of each minted id
    nextTokenId,         \* ESGSoulbound.nextTokenId
    authorizedIssuers,   \* ESGSoulbound.authorizedIssuers (the set mapped to true)
    companyCertificates, \* ESGSoulbound.companyCertificates
    donations,           \* DonationVerifier.donations, on the ids written so far
    donationCount,       \* DonationVerifier.donationCount
    pendingDonations,    \* DonationVerifier.pendingDonations, on the non-zero entries
    registeredNGOs,      \* DonationVerifier.registeredNGOs (the set mapped to true)
    quarterCO2Saved,     \* DonationVerifier.quarterCO2Saved
    quarterItemsDonated, \* DonationVerifier.quarterItemsDonated
    parentCompanyTreasury, \* DonationVerifier.parentCompanyTreasury
    checkBatchSize,      \* ExpiryKeeper.checkBatchSize
    lastCheckedBatchId,  \* ExpiryKeeper.lastCheckedBatchId
    upkeep,              \* the automation network's performData, from its last checkUpkeep
    inspected,           \* history: ids read by the applied scans since the cursor was last 0
    last                 \* the last transaction submitted and its outcome

registryVars == <<batches, nextBatchId, authorizedOracles, batchToken>>
tokenVars == <<balances, totalSupply, authorizedMinters, stakes, taxReceipts>>
esgVars == <<certificates, certOwner, nextTokenId, authorizedIssuers, companyCertificates>>
verifierVars == <<donations, donationCount, pendingDonations, registeredNGOs,
                  quarterCO2Saved, quarterItemsDonated, parentCompanyTreasury>>
keeperVars == <<checkBatchSize, lastCheckedBatchId, upkeep, inspected>>
contractVars == <<registryVars, tokenVars, verifierVars, keeperVars, esgVars>>
vars == <<now, contractVars, last>>

\* ----------------------------------------------------- transaction record
\* err = "" for a transaction that succeeded, the revert reason otherwise.
Tx(op, caller, batchId, party, err) ==
    [op |-> op, caller |-> caller, batchId |-> batchId, party |-> party, err |-> err]

NoTx == Tx("none", Null, 0, Null, "")

\* A failed require: the EVM rolls the whole transaction back.
Revert(tx) ==
    /\ last' = tx
    /\ UNCHANGED <<now, contractVars>>

\* ------------------------------------------------------- SupplyChainBatch
ZeroBatch ==
    [expiry |-> 0, quantity |-> 0, manufacturer |-> Null, currentOwner |-> Null,
     status |-> MANUFACTURED, gs1Hash |-> "", weightKg |-> 0]

\* a read of the mapping: an id never written reads as the zero struct
BatchIn(bs, id) == IF id \in DOMAIN bs THEN bs[id] ELSE ZeroBatch

BatchAt(id) == BatchIn(batches, id)

\* ERC1155.balanceOf(account, id)
balanceOf1155(account, id) ==
    IF id \in DOMAIN batchToken /\ batchToken[id] = account THEN 1 ELSE 0

\* mutant: registerBatch without the quantity requirement
registerBatchAnyQuantity(caller, expiry, quantity, gs1Hash, weightKg) ==
    LET tx(err) == Tx("registerBatch", caller, nextBatchId, Null, err) IN
    IF ~(expiry > now) THEN Revert(tx("Expiry must be in future"))
    ELSE
        /\ nextBatchId' = nextBatchId + 1
        /\ batches' = batches @@ (nextBatchId :>
               [expiry |-> expiry, quantity |-> quantity, manufacturer |-> caller,
                currentOwner |-> caller, status |-> MANUFACTURED,
                gs1Hash |-> gs1Hash, weightKg |-> weightKg])
        /\ batchToken' = batchToken @@ (nextBatchId :> caller)
        /\ last' = tx("")
        /\ UNCHANGED <<now, esgVars, authorizedOracles, tokenVars, verifierVars, keeperVars>>

registerBatch(caller, expiry, quantity, gs1Hash, weightKg) ==
    LET tx(err) == Tx("registerBatch", caller, nextBatchId, Null, err) IN
    IF ~(expiry > now) THEN Revert(tx("Expiry must be in future"))
    ELSE IF ~(quantity > 0) THEN Revert(tx("Quantity must be positive"))
    ELSE
        /\ nextBatchId' = nextBatchId + 1
        /\ batches' = batches @@ (nextBatchId :>
               [expiry |-> expiry, quantity |-> quantity, manufacturer |-> caller,
                currentOwner |-> caller, status |-> MANUFACTURED,
                gs1Hash |-> gs1Hash, weightKg |-> weightKg])
        /\ batchToken' = batchToken @@ (nextBatchId :> caller)
        /\ last' = tx("")
        /\ UNCHANGED <<now, esgVars, authorizedOracles, tokenVars, verifierVars, keeperVars>>

\* mutant: claimBatch without the status requirement
claimBatchAnyStatus(caller, id) ==
    LET tx(err) == Tx("claimBatch", caller, id, Null, err)
        batch == BatchAt(id) IN
    IF ~(balanceOf1155(batch.currentOwner, id) > 0) THEN Revert(tx("Batch not owned"))
    ELSE
        /\ batches' = [batches EXCEPT ![id].currentOwner = caller,
                                      ![id].status = IN_RETAIL]
        /\ batchToken' = [batchToken EXCEPT ![id] = caller]
        /\ last' = tx("")
        /\ UNCHANGED <<now, esgVars, nextBatchId, authorizedOracles, tokenVars, verifierVars,
                       keeperVars>>

claimBatch(caller, id) ==
    LET tx(err) == Tx("claimBatch", caller, id, Null, err)
        batch == BatchAt(id) IN
    IF batch.status # MANUFACTURED THEN Revert(tx("Batch not available"))
    ELSE IF ~(balanceOf1155(batch.currentOwner, id) > 0) THEN Revert(tx("Batch not owned"))
    ELSE
        /\ batches' = [batches EXCEPT ![id].currentOwner = caller,
                                      ![id].status = IN_RETAIL]
        /\ batchToken' = [batchToken EXCEPT ![id] = caller]
        /\ last' = tx("")
        /\ UNCHANGED <<now, esgVars, nextBatchId, authorizedOracles, tokenVars, verifierVars,
                       keeperVars>>

markForDonation(caller, id) ==
    LET tx(err) == Tx("markForDonation", caller, id, Null, err)
        batch == BatchAt(id) IN
    IF batch.currentOwner # caller THEN Revert(tx("Not batch owner"))
    ELSE IF ~(batch.status = IN_RETAIL \/ batch.status = NEAR_EXPIRY)
         THEN Revert(tx("Invalid status for donation"))
    ELSE
        /\ batches' = [batches EXCEPT ![id].status = READY_FOR_DONATION]
        /\ last' = tx("")
        /\ UNCHANGED <<now, esgVars, nextBatchId, authorizedOracles, batchToken, tokenVars,
                       verifierVars, keeperVars>>

\* mutant: flagNearExpiry without the three-day window requirement
flagNearExpiryErrorAnyTime(sender, bs, id) ==
    LET batch == BatchIn(bs, id) IN
    IF ~(sender \in authorizedOracles \/ sender = Admin) THEN "Not authorized"
    ELSE IF batch.status # IN_RETAIL THEN "Not in retail"
    ELSE ""

\* mutant: flagNearExpiry without the status requirement
flagNearExpiryErrorAnyStatus(sender, bs, id) ==
    LET batch == BatchIn(bs, id) IN
    IF ~(sender \in authorizedOracles \/ sender = Admin) THEN "Not authorized"
    ELSE IF batch.expiry - ThreeDays < 0 THEN "Panic: arithmetic underflow"
    ELSE IF ~(now >= batch.expiry - ThreeDays) THEN "Not near expiry yet"
    ELSE ""

\* The requires of flagNearExpiry for msg.sender = sender, as the revert reason
\* ("" when all pass).  expiry - 3 days is checked uint256 arithmetic.
flagNearExpiryError(sender, bs, id) ==
    LET batch == BatchIn(bs, id) IN
    IF ~(sender \in authorizedOracles \/ sender = Admin) THEN "Not authorized"
    ELSE IF batch.status # IN_RETAIL THEN "Not in retail"
    ELSE IF batch.expiry - ThreeDays < 0 THEN "Panic: arithmetic underflow"
    ELSE IF ~(now >= batch.expiry - ThreeDays) THEN "Not near expiry yet"
    ELSE ""

\* The registry after a successful flagNearExpiry(id)
flagged(bs, id) == [bs EXCEPT ![id].status = NEAR_EXPIRY]

flagNearExpiry(caller, id) ==
    LET tx(err) == Tx("flagNearExpiry", caller, id, Null, err)
        err == flagNearExpiryError(caller, batches, id) IN
    IF err # "" THEN Revert(tx(err))
    ELSE
        /\ batches' = flagged(batches, id)
        /\ last' = tx("")
        /\ UNCHANGED <<now, esgVars, nextBatchId, authorizedOracles, batchToken, tokenVars,
                       verifierVars, keeperVars>>

setOracle(caller, oracle, authorized) ==
    LET tx(err) == Tx("setOracle", caller, 0, oracle, err) IN
    IF caller # Admin THEN Revert(tx("OwnableUnauthorizedAccount"))
    ELSE
        /\ authorizedOracles' = IF authorized THEN authorizedOracles \cup {oracle}
                                ELSE authorizedOracles \ {oracle}
        /\ last' = tx("")
        /\ UNCHANGED <<now, esgVars, batches, nextBatchId, batchToken, tokenVars, verifierVars,
                       keeperVars>>

\* ERC1155.safeTransferFrom(from, to, id, 1, "") called by the holder itself
safeTransferFrom(caller, to, id) ==
    LET tx(err) == Tx("safeTransferFrom", caller, id, to, err) IN
    IF to = Null THEN Revert(tx("ERC1155InvalidReceiver"))
    ELSE IF balanceOf1155(caller, id) < 1 THEN Revert(tx("ERC1155InsufficientBalance"))
    ELSE
        /\ batchToken' = [batchToken EXCEPT ![id] = to]
        /\ last' = tx("")
        /\ UNCHANGED <<now, esgVars, batches, nextBatchId, authorizedOracles, tokenVars,
                       verifierVars, keeperVars>>

\* SupplyChainBatch.isNearExpiry
isNearExpiry(id) ==
    LET b == BatchAt(id) IN
    /\ b.expiry - ThreeDays >= 0
    /\ now >= b.expiry - ThreeDays
    /\ now < b.expiry

\* block.timestamp moves on between transactions
Tick ==
    /\ now < DeployTime + MaxTicks
    /\ now' = now + 1
    /\ last' = NoTx
    /\ UNCHANGED contractVars

\* a longer stretch of time between two transactions
Elapse(days) ==
    /\ now + days <= DeployTime + MaxTicks + ThirtyDays
    /\ now' = now + days
    /\ last' = NoTx
    /\ UNCHANGED contractVars

\* ----------------------------------------------------------- GoodwillToken
\* the default value of the stakes mapping: no active stake
NoStake == [amount |-> 0, stakedAt |-> 0, unlockTime |-> 0]

\* The ledger as a value, so that the calls of one transaction compose.
Ledger == [balances |-> balances, totalSupply |-> totalSupply]

Outcome(err, ledger) == [err |-> err, ledger |-> ledger]

\* mutant: _mint without the zero-address check
ERC20MintUnchecked(ledger, account, value) ==
    Outcome("", [balances |-> [ledger.balances EXCEPT ![account] = @ + value],
                 totalSupply |-> ledger.totalSupply + value])

\* ERC20._mint(account, value): rejects the zero address, credits otherwise
ERC20Mint(ledger, account, value) ==
    IF account = Null THEN Outcome("ERC20InvalidReceiver", ledger)
    ELSE Outcome("", [balances |-> [ledger.balances EXCEPT ![account] = @ + value],
                      totalSupply |-> ledger.totalSupply + value])

\* mutant: the owner may mint without the capability
isMinterOrOwner(sender) == sender \in authorizedMinters \/ sender = Admin

\* require(authorizedMinters[msg.sender], ...)
isMinter(sender) == sender \in authorizedMinters

mintForDonation(sender, ledger, retailer, amount) ==
    IF ~isMinter(sender) THEN Outcome("Not authorized to mint", ledger)
    ELSE ERC20Mint(ledger, retailer, amount)

mintNGOReferral(sender, ledger, ngo, amount) ==
    IF ~isMinter(sender) THEN Outcome("Not authorized to mint", ledger)
    ELSE ERC20Mint(ledger, ngo, amount)

\* a transaction that calls mintForDonation or mintNGOReferral directly
MintTx(op, caller, to, amount) ==
    LET out == IF op = "mintForDonation"
               THEN mintForDonation(caller, Ledger, to, amount)
               ELSE mintNGOReferral(caller, Ledger, to, amount)
        tx == Tx(op, caller, amount, to, out.err) IN
    IF out.err # "" THEN Revert(tx)
    ELSE
        /\ balances' = out.ledger.balances
        /\ totalSupply' = out.ledger.totalSupply
        /\ last' = tx
        /\ UNCHANGED <<now, esgVars, registryVars, authorizedMinters, stakes, taxReceipts,
                       verifierVars, keeperVars>>

setMinter(caller, minter, authorized) ==
    LET tx(err) == Tx("setMinter", caller, 0, minter, err) IN
    IF caller # Admin THEN Revert(tx("OwnableUnauthorizedAccount"))
    ELSE
        /\ authorizedMinters' = IF authorized THEN authorizedMinters \cup {minter}
                                ELSE authorizedMinters \ {minter}
        /\ last' = tx("")
        /\ UNCHANGED <<now, esgVars, registryVars, balances, totalSupply, stakes, taxReceipts,
                       verifierVars, keeperVars>>

\* ERC20._transfer(from, to, value): the zero address neither sends nor
\* receives, and the balance must cover the value
ERC20Transfer(ledger, from, to, value) ==
    IF from = Null THEN Outcome("ERC20InvalidSender", ledger)
    ELSE IF to = Null THEN Outcome("ERC20InvalidReceiver", ledger)
    ELSE IF ledger.balances[from] < value THEN Outcome("ERC20InsufficientBalance", ledger)
    ELSE Outcome("", [ledger EXCEPT
             !.balances = [[@ EXCEPT ![from] = @ - value] EXCEPT ![to] = @ + value]])

\* mutant: _burn that debits the account and keeps the total supply
ERC20BurnKeepsSupply(ledger, account, value) ==
    IF account = Null THEN Outcome("ERC20InvalidSender", ledger)
    ELSE IF ledger.balances[account] < value THEN Outcome("ERC20InsufficientBalance", ledger)
    ELSE Outcome("", [ledger EXCEPT !.balances[account] = @ - value])

\* ERC20._burn(account, value)
ERC20Burn(ledger, account, value) ==
    IF account = Null THEN Outcome("ERC20InvalidSender", ledger)
    ELSE IF ledger.balances[account] < value THEN Outcome("ERC20InsufficientBalance", ledger)
    ELSE Outcome("", [balances |-> [ledger.balances EXCEPT ![account] = @ - value],
                      totalSupply |-> ledger.totalSupply - value])

\* ERC20.transfer(to, value), called by the holder
transfer(caller, to, value) ==
    LET out == ERC20Transfer(Ledger, caller, to, value)
        tx == Tx("transfer", caller, value, to, out.err) IN
    IF out.err # "" THEN Revert(tx)
    ELSE
        /\ balances' = out.ledger.balances
        /\ last' = tx
        /\ UNCHANGED <<now, esgVars, registryVars, totalSupply, authorizedMinters, stakes,
                       taxReceipts, verifierVars, keeperVars>>

\* ERC20Burnable.burn(value), called by the holder: _burn(msg.sender, value)
burn(caller, value) ==
    LET out == ERC20Burn(Ledger, caller, value)
        tx == Tx("burn", caller, value, Null, out.err) IN
    IF out.err # "" THEN Revert(tx)
    ELSE
        /\ balances' = out.ledger.balances
        /\ totalSupply' = out.ledger.totalSupply
        /\ last' = tx
        /\ UNCHANGED <<now, esgVars, registryVars, authorizedMinters, stakes, taxReceipts,
                       verifierVars, keeperVars>>

\* keccak256(abi.encodePacked(msg.sender, _amount, block.timestamp, block.number,
\* taxReceipts[msg.sender].length)); the block number goes with the timestamp
receiptHashOf(burner, amount, index) == <<"receipt", burner, amount, now, index>>

burnForTax(caller, amount) ==
    LET tx(err) == Tx("burnForTax", caller, amount, Null, err)
        out == ERC20Burn(Ledger, caller, amount) IN
    IF ~(balances[caller] >= amount) THEN Revert(tx("Insufficient balance"))
    ELSE IF out.err # "" THEN Revert(tx(out.err))
    ELSE
        /\ taxReceipts' = [taxReceipts EXCEPT ![caller] = Append(@,
               [burner |-> caller, amount |-> amount, timestamp |-> now,
                receiptHash |-> receiptHashOf(caller, amount, Len(taxReceipts[caller]))])]
        /\ balances' = out.ledger.balances
        /\ totalSupply' = out.ledger.totalSupply
        /\ last' = tx("")
        /\ UNCHANGED <<now, esgVars, registryVars, authorizedMinters, stakes, verifierVars,
                       keeperVars>>

\* mutant: stake without the one-stake-per-address requirement
alreadyStakingNever(caller) == FALSE

\* stakes[msg.sender].amount == 0 fails
alreadyStaking(caller) == stakes[caller].amount # 0

stake(caller, amount) ==
    LET tx(err) == Tx("stake", caller, amount, Null, err)
        out == ERC20Transfer(Ledger, caller, TokenAddr, amount) IN
    IF ~(balances[caller] >= amount) THEN Revert(tx("Insufficient balance"))
    ELSE IF alreadyStaking(caller) THEN Revert(tx("Already staking"))
    ELSE IF out.err # "" THEN Revert(tx(out.err))
    ELSE
        /\ balances' = out.ledger.balances
        /\ stakes' = [stakes EXCEPT ![caller] =
               [amount |-> amount, stakedAt |-> now, unlockTime |-> now + ThirtyDays]]
        /\ last' = tx("")
        /\ UNCHANGED <<now, esgVars, registryVars, totalSupply, authorizedMinters,
                       taxReceipts, verifierVars, keeperVars>>

\* mutant: unstake without the lock
stillLockedNever(s) == FALSE

\* block.timestamp >= s.unlockTime fails
stillLocked(s) == ~(now >= s.unlockTime)

\* mutant: unstake that pays out and keeps the stake record
unstakeKeepingRecord(caller) ==
    LET tx(err) == Tx("unstake", caller, 0, Null, err)
        s == stakes[caller]
        out == ERC20Transfer(Ledger, TokenAddr, caller, s.amount) IN
    IF ~(s.amount > 0) THEN Revert(tx("No active stake"))
    ELSE IF stillLocked(s) THEN Revert(tx("Still locked"))
    ELSE IF out.err # "" THEN Revert(tx(out.err))
    ELSE
        /\ balances' = out.ledger.balances
        /\ last' = tx("")
        /\ UNCHANGED <<now, esgVars, registryVars, totalSupply, authorizedMinters, stakes,
                       taxReceipts, verifierVars, keeperVars>>

unstake(caller) ==
    LET tx(err) == Tx("unstake", caller, 0, Null, err)
        s == stakes[caller]
        out == ERC20Transfer(Ledger, TokenAddr, caller, s.amount) IN
    IF ~(s.amount > 0) THEN Revert(tx("No active stake"))
    ELSE IF stillLocked(s) THEN Revert(tx("Still locked"))
    ELSE IF out.err # "" THEN Revert(tx(out.err))
    ELSE
        /\ stakes' = [stakes EXCEPT ![caller] = NoStake]
        /\ balances' = out.ledger.balances
        /\ last' = tx("")
        /\ UNCHANGED <<now, esgVars, registryVars, totalSupply, authorizedMinters,
                       taxReceipts, verifierVars, keeperVars>>

\* -------------------------------------------------------- DonationVerifier
\* keccak256(abi.encodePacked("ECOLINK_DONATION", id, retailer, ngo)): the packed
\* fields have fixed widths, so distinct arguments give distinct hashes.
getDonationHash(id, retailer, ngo) == <<"ECOLINK_DONATION", id, retailer, ngo>>

\* MessageHashUtils.toEthSignedMessageHash
toEthSignedMessageHash(hash) == <<"Ethereum Signed Message:32", hash>>

\* A signature is made by the holder of a key over one digest.
Signature(signer, digest) == [signer |-> signer, digest |-> digest]

Malformed == Signature(Null, <<>>)

\* the address ECDSA.recover yields for a signature made over another digest:
\* an address nobody holds
Stranger == "0xrecovered"

\* ECDSA.recover(digest, signature), which reverts on a malformed signature
recover(digest, sig) ==
    IF sig = Malformed THEN [err |-> "ECDSAInvalidSignature", signer |-> Null]
    ELSE IF sig.digest = digest THEN [err |-> "", signer |-> sig.signer]
    ELSE [err |-> "", signer |-> Stranger]

\* a read of the mapping: a hash with no entry reads as address(0)
PendingAt(hash) ==
    IF hash \in DOMAIN pendingDonations THEN pendingDonations[hash] ELSE Null

\* setParentCompanyTreasury (onlyOwner)
setParentCompanyTreasury(caller, treasury) ==
    LET tx(err) == Tx("setParentCompanyTreasury", caller, 0, treasury, err) IN
    IF caller # Admin THEN Revert(tx("OwnableUnauthorizedAccount"))
    ELSE
        /\ parentCompanyTreasury' = treasury
        /\ last' = tx("")
        /\ UNCHANGED <<now, esgVars, registryVars, tokenVars, donations, donationCount,
                       pendingDonations, registeredNGOs, quarterCO2Saved,
                       quarterItemsDonated, keeperVars>>

registerNGO(caller, ngo, registered) ==
    LET tx(err) == Tx("registerNGO", caller, 0, ngo, err) IN
    IF caller # Admin THEN Revert(tx("OwnableUnauthorizedAccount"))
    ELSE
        /\ registeredNGOs' = IF registered THEN registeredNGOs \cup {ngo}
                             ELSE registeredNGOs \ {ngo}
        /\ last' = tx("")
        /\ UNCHANGED <<now, esgVars, registryVars, tokenVars, donations, donationCount,
                       pendingDonations, quarterCO2Saved, quarterItemsDonated,
                       parentCompanyTreasury, keeperVars>>

\* pendingDonations[donationHash] = msg.sender
storePending(hash, sender) ==
    [h \in DOMAIN pendingDonations \cup {hash} |->
        IF h = hash THEN sender ELSE pendingDonations[h]]

\* mutant: initiateDonation without the ownership requirement
initiateDonationAnyOwner(caller, id, ngo, sig) ==
    LET tx(err) == Tx("initiateDonation", caller, id, ngo, err)
        batch == BatchAt(id)
        donationHash == getDonationHash(id, caller, ngo)
        rec == recover(toEthSignedMessageHash(donationHash), sig) IN
    IF ngo \notin registeredNGOs THEN Revert(tx("NGO not registered"))
    ELSE IF batch.status # READY_FOR_DONATION
         THEN Revert(tx("Batch not marked for donation"))
    ELSE IF rec.err # "" THEN Revert(tx(rec.err))
    ELSE IF rec.signer # caller THEN Revert(tx("Invalid retailer signature"))
    ELSE
        /\ pendingDonations' = storePending(donationHash, caller)
        /\ last' = tx("")
        /\ UNCHANGED <<now, esgVars, registryVars, tokenVars, donations, donationCount,
                       registeredNGOs, quarterCO2Saved, quarterItemsDonated,
                       parentCompanyTreasury, keeperVars>>

initiateDonation(caller, id, ngo, sig) ==
    LET tx(err) == Tx("initiateDonation", caller, id, ngo, err)
        batch == BatchAt(id)
        donationHash == getDonationHash(id, caller, ngo)
        rec == recover(toEthSignedMessageHash(donationHash), sig) IN
    IF ngo \notin registeredNGOs THEN Revert(tx("NGO not registered"))
    ELSE IF batch.currentOwner # caller THEN Revert(tx("Not batch owner"))
    ELSE IF batch.status # READY_FOR_DONATION
         THEN Revert(tx("Batch not marked for donation"))
    ELSE IF rec.err # "" THEN Revert(tx(rec.err))
    ELSE IF rec.signer # caller THEN Revert(tx("Invalid retailer signature"))
    ELSE
        /\ pendingDonations' = storePending(donationHash, caller)
        /\ last' = tx("")
        /\ UNCHANGED <<now, esgVars, registryVars, tokenVars, donations, donationCount,
                       registeredNGOs, quarterCO2Saved, quarterItemsDonated,
                       parentCompanyTreasury, keeperVars>>

\* require(pendingDonations[donationHash] == _retailer, ...)
pendingMatches(hash, retailer) == PendingAt(hash) = retailer

\* mutant: the recovered signer is not compared with the caller
signerIsAnyone(signer, caller) == TRUE

\* require(signer == msg.sender, ...)
signerIsCaller(signer, caller) == signer = caller

\* (weightKg * CO2_FACTOR) / 10
carbonCreditsOf(weightKg) == (weightKg * CO2_FACTOR) \div 10

\* mutant: no referral is paid
ngoTokensOfNone(quantity) == 0

\* (quantity * NGO_REFERRAL_PERCENT) / 100
ngoTokensOf(quantity) == (quantity * NGO_REFERRAL_PERCENT) \div 100

\* _getCurrentQuarter(): the year is fixed, a month is 30 days
getCurrentQuarter ==
    LET month == ((now \div ThirtyDays) % 12) + 1
        quarter == ((month - 1) \div 3) + 1 IN
    YEAR * 10 + quarter

Quarters == {YEAR * 10 + q : q \in 1..4}

\* mutant: the pending entry is left in place
keepPending(hash) == pendingDonations

\* delete pendingDonations[donationHash]
deletePending(hash) ==
    [h \in DOMAIN pendingDonations \ {hash} |-> pendingDonations[h]]

\* mutant: the mints are attempted and their failure is swallowed
mintBothUnchecked(ledger, retailer, retailerTokens, ngo, ngoTokens) ==
    LET first == mintForDonation(VerifierAddr, ledger, retailer, retailerTokens)
        second == mintNGOReferral(VerifierAddr, first.ledger, ngo, ngoTokens) IN
    Outcome("", second.ledger)

\* The two mints of confirmDonation, in the order of the code; the second runs
\* on the ledger the first left, and a failure of either fails the call.
mintBoth(ledger, retailer, retailerTokens, ngo, ngoTokens) ==
    LET first == mintForDonation(VerifierAddr, ledger, retailer, retailerTokens) IN
    IF first.err # "" THEN first
    ELSE mintNGOReferral(VerifierAddr, first.ledger, ngo, ngoTokens)

\* mutant: confirmDonation re-validates no registration
isRegisteredNGOAlways(account) == TRUE

\* require(registeredNGOs[msg.sender], "Not a registered NGO")
isRegisteredNGO(account) == account \in registeredNGOs

\* The requires of confirmDonation in the order of the code, the two mints
\* included, as the revert reason ("" when the call goes through).
confirmError(caller, id, retailer, sig) ==
    LET donationHash == getDonationHash(id, retailer, caller)
        rec == recover(toEthSignedMessageHash(donationHash), sig)
        batch == BatchAt(id)
        minted == mintBoth(Ledger, retailer, batch.quantity, caller,
                           ngoTokensOf(batch.quantity)) IN
    IF ~isRegisteredNGO(caller) THEN "Not a registered NGO"
    ELSE IF ~pendingMatches(donationHash, retailer) THEN "No pending donation"
    ELSE IF rec.err # "" THEN rec.err
    ELSE IF ~signerIsCaller(rec.signer, caller) THEN "Invalid NGO signature"
    ELSE IF batch.status # READY_FOR_DONATION THEN "Invalid batch status"
    ELSE minted.err

confirmDonation(caller, id, retailer, sig) ==
    LET tx(err) == Tx("confirmDonation", caller, id, retailer, err)
        err == confirmError(caller, id, retailer, sig)
        donationHash == getDonationHash(id, retailer, caller)
        batch == BatchAt(id)
        carbonCredits == carbonCreditsOf(batch.weightKg)
        retailerTokens == batch.quantity
        ngoTokens == ngoTokensOf(batch.quantity)
        minted == mintBoth(Ledger, retailer, retailerTokens, caller, ngoTokens)
        currentQuarter == getCurrentQuarter IN
    IF err # "" THEN Revert(tx(err))
    ELSE
        /\ balances' = minted.ledger.balances
        /\ totalSupply' = minted.ledger.totalSupply
        /\ quarterCO2Saved' =
               [quarterCO2Saved EXCEPT ![currentQuarter] = @ + carbonCredits]
        /\ quarterItemsDonated' =
               [quarterItemsDonated EXCEPT ![currentQuarter] = @ + batch.quantity]
        /\ donationCount' = donationCount + 1
        /\ donations' = donations @@ ((donationCount + 1) :>
               [batchId |-> id, retailer |-> retailer, ngo |-> caller,
                quantity |-> batch.quantity, weightKg |-> batch.weightKg,
                carbonCredits |-> carbonCredits, goodwillTokens |-> retailerTokens,
                verifiedAt |-> now, donationHash |-> donationHash])
        /\ pendingDonations' = deletePending(donationHash)
        /\ last' = tx("")
        /\ UNCHANGED <<now, esgVars, registryVars, authorizedMinters, stakes, taxReceipts,
                       registeredNGOs, parentCompanyTreasury, keeperVars>>

\* ------------------------------------------------------------ ExpiryKeeper
\* endId of checkUpkeep: startId + checkBatchSize, capped at nextBatchId
scanEnd ==
    LET startId == lastCheckedBatchId + 1
        endId == startId + checkBatchSize IN
    IF endId > nextBatchId THEN nextBatchId ELSE endId

\* the ids the loop of checkUpkeep reads, in order: startId <= i < endId
scanned ==
    LET startId == lastCheckedBatchId + 1
        n == IF scanEnd > startId THEN scanEnd - startId ELSE 0 IN
    [k \in 1..n |-> startId + k - 1]

\* status == 1 && block.timestamp >= expiry - 3 days && block.timestamp < expiry
needsFlag(id) ==
    LET b == BatchAt(id) IN
    b.status = IN_RETAIL /\ now >= b.expiry - ThreeDays /\ now < b.expiry

\* checkUpkeep (a view): performData is (trimmedBatches, endId) when upkeepNeeded
checkUpkeep ==
    LET batchesToFlag == SelectSeq(scanned, LAMBDA i : needsFlag(i)) IN
    [upkeepNeeded |-> Len(batchesToFlag) > 0,
     batchIds |-> batchesToFlag,
     lastChecked |-> scanEnd]

NoUpkeep == [batchIds |-> <<>>, lastChecked |-> 0, scanned |-> <<>>, at |-> 0]

\* The try/catch loop of performUpkeep from index k on.  A failed
\* flagNearExpiry is caught; (expiry - block.timestamp) / 1 days in the success
\* branch is checked arithmetic and is not caught.
RECURSIVE flagEach(_, _, _)
flagEach(bs, batchIds, k) ==
    IF k > Len(batchIds) THEN [err |-> "", batches |-> bs]
    ELSE LET id == batchIds[k] IN
         IF flagNearExpiryError(KeeperAddr, bs, id) # "" THEN flagEach(bs, batchIds, k + 1)
         ELSE IF BatchIn(bs, id).expiry - now < 0
              THEN [err |-> "Panic: arithmetic underflow", batches |-> bs]
         ELSE flagEach(flagged(bs, id), batchIds, k + 1)

\* flaggedCount of UpkeepPerformed when the loop completes: incremented after
\* each flagNearExpiry that went through and left the batch with status == 2
RECURSIVE flaggedCount(_, _, _)
flaggedCount(bs, batchIds, k) ==
    IF k > Len(batchIds) THEN 0
    ELSE LET id == batchIds[k] IN
         IF flagNearExpiryError(KeeperAddr, bs, id) # "" THEN flaggedCount(bs, batchIds, k + 1)
         ELSE (IF BatchIn(flagged(bs, id), id).status = NEAR_EXPIRY THEN 1 ELSE 0)
              + flaggedCount(flagged(bs, id), batchIds, k + 1)

\* if (lastCheckedBatchId >= batchContract.nextBatchId() - 1) lastCheckedBatchId = 0
wrapCursor(lastChecked) ==
    IF lastChecked >= nextBatchId - 1 THEN 0 ELSE lastChecked

\* performUpkeep(abi.encode(batchIds, lastChecked)); `read` is the history of
\* the scan that made the data (empty for data made by hand).
performUpkeep(caller, batchIds, lastChecked, read) ==
    LET tx(err) == Tx("performUpkeep", caller, lastChecked, Null, err)
        out == flagEach(batches, batchIds, 1) IN
    IF out.err # ""
    THEN /\ last' = tx(out.err)
         /\ upkeep' = NoUpkeep
         /\ UNCHANGED <<now, esgVars, registryVars, tokenVars, verifierVars, checkBatchSize,
                        lastCheckedBatchId, inspected>>
    ELSE /\ batches' = out.batches
         /\ lastCheckedBatchId' = wrapCursor(lastChecked)
         /\ inspected' = (IF lastCheckedBatchId = 0 THEN <<>> ELSE inspected) \o read
         /\ upkeep' = NoUpkeep
         /\ last' = tx("")
         /\ UNCHANGED <<now, esgVars, nextBatchId, authorizedOracles, batchToken, tokenVars,
                        verifierVars, checkBatchSize>>

\* The automation network simulates checkUpkeep off-chain and keeps performData
\* when upkeep is needed ...
KeeperCheck ==
    LET res == checkUpkeep IN
    /\ res.upkeepNeeded
    /\ upkeep' = [batchIds |-> res.batchIds, lastChecked |-> res.lastChecked,
                  scanned |-> scanned, at |-> lastCheckedBatchId + 1]
    /\ last' = NoTx
    /\ UNCHANGED <<now, esgVars, registryVars, tokenVars, verifierVars, checkBatchSize,
                   lastCheckedBatchId, inspected>>

\* ... and submits it in a transaction of its own.
KeeperPerform ==
    /\ upkeep # NoUpkeep
    /\ performUpkeep(Automation, upkeep.batchIds, upkeep.lastChecked, upkeep.scanned)

manualFlagExpiry(caller, id) ==
    LET tx(err) == Tx("manualFlagExpiry", caller, id, Null, err)
        err == flagNearExpiryError(KeeperAddr, batches, id) IN
    IF caller # Admin THEN Revert(tx("OwnableUnauthorizedAccount"))
    ELSE IF err # "" THEN Revert(tx(err))
    ELSE
        /\ batches' = flagged(batches, id)
        /\ last' = tx("")
        /\ UNCHANGED <<now, esgVars, nextBatchId, authorizedOracles, batchToken, tokenVars,
                       verifierVars, keeperVars>>

manualBatchCheck(caller, batchIds) ==
    LET tx(err) == Tx("manualBatchCheck", caller, Len(batchIds), Null, err)
        out == flagEach(batches, batchIds, 1) IN
    IF caller # Admin THEN Revert(tx("OwnableUnauthorizedAccount"))
    ELSE IF out.err # "" THEN Revert(tx(out.err))
    ELSE
        /\ batches' = out.batches
        /\ last' = tx("")
        /\ UNCHANGED <<now, esgVars, nextBatchId, authorizedOracles, batchToken, tokenVars,
                       verifierVars, keeperVars>>

setCheckBatchSize(caller, size) ==
    LET tx(err) == Tx("setCheckBatchSize", caller, size, Null, err) IN
    IF caller # Admin THEN Revert(tx("OwnableUnauthorizedAccount"))
    ELSE IF ~(size > 0 /\ size <= MaxCheckBatchSize) THEN Revert(tx("Invalid batch size"))
    ELSE
        /\ checkBatchSize' = size
        /\ last' = tx("")
        /\ UNCHANGED <<now, esgVars, registryVars, tokenVars, verifierVars, lastCheckedBatchId,
                       upkeep, inspected>>

resetLastChecked(caller) ==
    LET tx(err) == Tx("resetLastChecked", caller, 0, Null, err) IN
    IF caller # Admin THEN Revert(tx("OwnableUnauthorizedAccount"))
    ELSE
        /\ lastCheckedBatchId' = 0
        /\ inspected' = <<>>
        /\ last' = tx("")
        /\ UNCHANGED <<now, esgVars, registryVars, tokenVars, verifierVars, checkBatchSize,
                       upkeep>>

\* ------------------------------------------------------------ ESGSoulbound
\* ERC721._ownerOf(tokenId): the zero address for an id never minted
ownerOf721(tokenId) == IF tokenId \in DOMAIN certOwner THEN certOwner[tokenId] ELSE Null

\* mutant: a digest that leaves the issue time out
certificateHashUntimed(company, co2SavedKg, itemsDonated, quarterStart, quarterEnd, issuedAt, tokenId) ==
    <<"certificate", company, co2SavedKg, itemsDonated, quarterStart, quarterEnd, tokenId>>

\* keccak256(abi.encodePacked(_company, _co2SavedKg, _itemsDonated, _quarterStart,
\* _quarterEnd, block.timestamp, tokenId)): the packed fields have fixed widths,
\* so distinct arguments give distinct digests.
certificateHash(company, co2SavedKg, itemsDonated, quarterStart, quarterEnd, issuedAt, tokenId) ==
    <<"certificate", company, co2SavedKg, itemsDonated, quarterStart, quarterEnd,
      issuedAt, tokenId>>

\* the requires of issueCertificate for msg.sender = sender, then the library's
\* _mint of the fresh id, as the revert reason ("" when all pass)
issueCertificateError(sender, company, quarterStart, quarterEnd) ==
    IF ~(sender \in authorizedIssuers \/ sender = Admin) THEN "Not authorized"
    ELSE IF ~(company # Null) THEN "Invalid company address"
    ELSE IF ~(quarterEnd > quarterStart) THEN "Invalid quarter range"
    ELSE IF ownerOf721(nextTokenId) # Null THEN "ERC721InvalidSender"
    ELSE ""

\* mutant: an issue that skips an id
certificateIssuedSkipping(company, co2SavedKg, itemsDonated, quarterStart, quarterEnd) ==
    LET tokenId == nextTokenId + 1 IN
    /\ nextTokenId' = nextTokenId + 2
    /\ certificates' = certificates @@ (tokenId :>
           [company |-> company, co2SavedKg |-> co2SavedKg,
            itemsDonated |-> itemsDonated, quarterStart |-> quarterStart,
            quarterEnd |-> quarterEnd, issuedAt |-> now,
            verificationHash |->
                certificateHash(company, co2SavedKg, itemsDonated, quarterStart,
                                quarterEnd, now, tokenId)])
    /\ companyCertificates' = [companyCertificates EXCEPT ![company] = Append(@, tokenId)]
    /\ certOwner' = certOwner @@ (tokenId :> company)
    /\ UNCHANGED authorizedIssuers

\* the certificate contract after a successful issueCertificate:
\* tokenId = nextTokenId++, the stored record, the company's list, the mint
certificateIssued(company, co2SavedKg, itemsDonated, quarterStart, quarterEnd) ==
    LET tokenId == nextTokenId IN
    /\ nextTokenId' = nextTokenId + 1
    /\ certificates' = certificates @@ (tokenId :>
           [company |-> company, co2SavedKg |-> co2SavedKg,
            itemsDonated |-> itemsDonated, quarterStart |-> quarterStart,
            quarterEnd |-> quarterEnd, issuedAt |-> now,
            verificationHash |->
                certificateHash(company, co2SavedKg, itemsDonated, quarterStart,
                                quarterEnd, now, tokenId)])
    /\ companyCertificates' = [companyCertificates EXCEPT ![company] = Append(@, tokenId)]
    /\ certOwner' = certOwner @@ (tokenId :> company)
    /\ UNCHANGED authorizedIssuers

issueCertificate(caller, company, co2SavedKg, itemsDonated, quarterStart, quarterEnd) ==
    LET tx(err) == Tx("issueCertificate", caller, nextTokenId, company, err)
        err == issueCertificateError(caller, company, quarterStart, quarterEnd) IN
    IF err # "" THEN Revert(tx(err))
    ELSE
        /\ certificateIssued(company, co2SavedKg, itemsDonated, quarterStart, quarterEnd)
        /\ last' = tx("")
        /\ UNCHANGED <<now, registryVars, tokenVars, verifierVars, keeperVars>>

setIssuer(caller, issuer, authorized) ==
    LET tx(err) == Tx("setIssuer", caller, 0, issuer, err) IN
    IF caller # Admin THEN Revert(tx("OwnableUnauthorizedAccount"))
    ELSE
        /\ authorizedIssuers' = IF authorized THEN authorizedIssuers \cup {issuer}
                                ELSE authorizedIssuers \ {issuer}
        /\ last' = tx("")
        /\ UNCHANGED <<now, certificates, certOwner, nextTokenId, companyCertificates,
                       registryVars, tokenVars, verifierVars, keeperVars>>

\* mutant: _update without the soulbound check
soulboundBlocksNever(from, to) == FALSE

\* _update: from != address(0) && to != address(0) reverts
soulboundBlocks(from, to) == from # Null /\ to # Null

\* ERC721.transferFrom(from, to, tokenId) through the overridden _update; no
\* approval can exist, so only the owner passes the library's authorization
transferFrom(caller, from, to, tokenId) ==
    LET tx(err) == Tx("transferFrom", caller, tokenId, to, err)
        owner == ownerOf721(tokenId) IN
    IF to = Null THEN Revert(tx("ERC721InvalidReceiver"))
    ELSE IF soulboundBlocks(owner, to)
         THEN Revert(tx("ESGSoulbound: Token is non-transferable"))
    ELSE IF owner = Null THEN Revert(tx("ERC721NonexistentToken"))
    ELSE IF caller # owner THEN Revert(tx("ERC721InsufficientApproval"))
    ELSE IF owner # from THEN Revert(tx("ERC721IncorrectOwner"))
    ELSE
        /\ certOwner' = [certOwner EXCEPT ![tokenId] = to]
        /\ last' = tx("")
        /\ UNCHANGED <<now, certificates, nextTokenId, authorizedIssuers,
                       companyCertificates, registryVars, tokenVars, verifierVars,
                       keeperVars>>

approve(caller, to, tokenId) ==
    Revert(Tx("approve", caller, tokenId, to, "ESGSoulbound: Approvals not allowed"))

setApprovalForAll(caller, operator, approved) ==
    Revert(Tx("setApprovalForAll", caller, 0, operator,
              "ESGSoulbound: Approvals not allowed"))

\* verifyCertificate (a view)
verifyCertificate(tokenId) ==
    IF ownerOf721(tokenId) = Null THEN [exists |-> FALSE, verificationHash |-> <<>>]
    ELSE [exists |-> TRUE, verificationHash |-> certificates[tokenId].verificationHash]

\* ------------------------------------- DonationVerifier: quarterly certificate
\* mutant: a quarter without impact can be certified
hasImpactAlways(co2, items) == TRUE

\* require(co2 > 0 || items > 0, "No impact to certify")
hasImpact(co2, items) == co2 > 0 \/ items > 0

\* a read of a quarter aggregate: a quarter never written reads as 0
QuarterRead(aggregate, quarter) ==
    IF quarter \in DOMAIN aggregate THEN aggregate[quarter] ELSE 0

\* The requires of issueQuarterlyCertificate, then those of the issueCertificate
\* it calls as the verifier, as the revert reason ("" when all pass);
\* block.timestamp - 90 days is checked arithmetic.
issueQuarterlyError(caller, quarter) ==
    LET co2 == QuarterRead(quarterCO2Saved, quarter)
        items == QuarterRead(quarterItemsDonated, quarter) IN
    IF caller # Admin THEN "OwnableUnauthorizedAccount"
    ELSE IF ~(parentCompanyTreasury # Null) THEN "Treasury not set"
    ELSE IF ~hasImpact(co2, items) THEN "No impact to certify"
    ELSE IF now - NinetyDays < 0 THEN "Panic: arithmetic underflow"
    ELSE issueCertificateError(VerifierAddr, parentCompanyTreasury, now - NinetyDays, now)

\* mutant: the quarterly certificate clears the quarter it certifies
issueQuarterlyCertificateClearing(caller, quarter) ==
    LET tx(err) == Tx("issueQuarterlyCertificate", caller, quarter, parentCompanyTreasury, err)
        err == issueQuarterlyError(caller, quarter) IN
    IF err # "" THEN Revert(tx(err))
    ELSE
        /\ certificateIssued(parentCompanyTreasury,
                             QuarterRead(quarterCO2Saved, quarter),
                             QuarterRead(quarterItemsDonated, quarter),
                             now - NinetyDays, now)
        /\ quarterCO2Saved' = [quarterCO2Saved EXCEPT ![quarter] = 0]
        /\ quarterItemsDonated' = [quarterItemsDonated EXCEPT ![quarter] = 0]
        /\ last' = tx("")
        /\ UNCHANGED <<now, registryVars, tokenVars, donations, donationCount,
                       pendingDonations, registeredNGOs, parentCompanyTreasury, keeperVars>>

issueQuarterlyCertificate(caller, quarter) ==
    LET tx(err) == Tx("issueQuarterlyCertificate", caller, quarter, parentCompanyTreasury, err)
        err == issueQuarterlyError(caller, quarter) IN
    IF err # "" THEN Revert(tx(err))
    ELSE
        /\ certificateIssued(parentCompanyTreasury,
                             QuarterRead(quarterCO2Saved, quarter),
                             QuarterRead(quarterItemsDonated, quarter),
                             now - NinetyDays, now)
        /\ last' = tx("")
        /\ UNCHANGED <<now, registryVars, tokenVars, verifierVars, keeperVars>>

\* ------------------------------------------------------------- deployment
\* The state scripts/deploy.js leaves: the five contracts deployed by one
\* account, the verifier made minter and the keeper made oracle.
Init ==
    /\ now = DeployTime
    /\ batches = <<>>
    /\ nextBatchId = 1
    /\ authorizedOracles = {KeeperAddr}
    /\ batchToken = <<>>
    /\ balances = [a \in Addresses |-> 0]
    /\ totalSupply = 0
    /\ authorizedMinters = {VerifierAddr}
    /\ stakes = [a \in Addresses |-> NoStake]
    /\ taxReceipts = [a \in Addresses |-> <<>>]
    /\ certificates = <<>>
    /\ certOwner = <<>>
    /\ nextTokenId = 1
    /\ authorizedIssuers = {VerifierAddr}
    /\ companyCertificates = [a \in Addresses |-> <<>>]
    /\ donations = <<>>
    /\ donationCount = 0
    /\ pendingDonations = <<>>
    /\ registeredNGOs = {}
    /\ quarterCO2Saved = [q \in Quarters |-> 0]
    /\ quarterItemsDonated = [q \in Quarters |-> 0]
    /\ parentCompanyTreasury = Null
    /\ checkBatchSize = InitialCheckBatchSize
    /\ lastCheckedBatchId = 0
    /\ upkeep = NoUpkeep
    /\ inspected = <<>>
    /\ last = NoTx

\* --------------------------------------------------- the donation protocol
Quantities == {7, 50}
Weights == {25}

\* the signatures a caller may submit for the commitment `hash`: a user's over
\* it, a user's over another commitment, or bytes that are no signature
SigInputs(hash) ==
    {Signature(s, toEthSignedMessageHash(h)) :
        s \in Users, h \in {hash, getDonationHash(0, Null, Null)}}
    \cup {Malformed}

\* One maker registers; two users claim, mark, initiate and confirm, each of
\* them as holder or as organization; the admin registers organizations and
\* grants or withdraws the verifier's minter capability.
Next ==
    \/ \E q \in Quantities, w \in Weights :
          /\ nextBatchId <= DonationBatches
          /\ registerBatch(Maker, now + 10, q, "gs1", w)
    \/ \E c \in Users, id \in 1..DonationBatches : claimBatch(c, id)
    \/ \E c \in Users, id \in 1..DonationBatches : markForDonation(c, id)
    \/ \E c \in Users \cup {Admin}, n \in Users, f \in BOOLEAN : registerNGO(c, n, f)
    \/ \E f \in BOOLEAN : setMinter(Admin, VerifierAddr, f)
    \/ \E c \in Users, id \in 1..DonationBatches, n \in Users :
          \E sig \in SigInputs(getDonationHash(id, c, n)) :
              initiateDonation(c, id, n, sig)
    \/ \E c \in Users, id \in 1..DonationBatches, r \in Users \cup {Null} :
          \E sig \in SigInputs(getDonationHash(id, r, c)) :
              /\ donationCount < MaxDonations
              /\ confirmDonation(c, id, r, sig)

Spec == Init /\ [][Next]_vars

\* ================================================================ claims
\* the commitment hash of the confirmDonation recorded in a transaction record
ConfirmHash(tx) == getDonationHash(tx.batchId, tx.party, tx.caller)

\* the commitment hash of the initiateDonation recorded in a transaction record
InitiateHash(tx) == getDonationHash(tx.batchId, tx.caller, tx.party)

Succeeded(tx, op) == tx.op = op /\ tx.err = ""

rewardVars == <<balances, totalSupply, quarterCO2Saved, quarterItemsDonated,
                donations, donationCount>>

\* C1: confirmDonation records a Donation and mints only if the caller is a
\* registered organization whose own signature over the commitment hash was
\* submitted, and a pending entry for (batchId, retailer, caller) is stored; a
\* pending entry is stored only by an accepted initiateDonation of the batch's
\* recorded owner with the owner's own signature; rewards and Donation records
\* change in no other way.  In particular no confirmDonation that names the
\* null address as retailer succeeds.
C1_ConfirmNeedsBothParties ==
    [][ /\ Succeeded(last', "confirmDonation") =>
             LET h == ConfirmHash(last') IN
             /\ last'.caller \in registeredNGOs
             /\ last'.party # Null
             /\ h \in DOMAIN pendingDonations
             /\ pendingDonations[h] = last'.party
             /\ BatchAt(last'.batchId).currentOwner = last'.party
             /\ \A sig \in SigInputs(h) :
                    confirmDonation(last'.caller, last'.batchId, last'.party, sig)
                    => recover(toEthSignedMessageHash(h), sig)
                         = [err |-> "", signer |-> last'.caller]
        /\ \A h \in DOMAIN pendingDonations' :
             (h \notin DOMAIN pendingDonations \/ pendingDonations'[h] # PendingAt(h)) =>
                 /\ Succeeded(last', "initiateDonation")
                 /\ h = InitiateHash(last')
                 /\ pendingDonations'[h] = last'.caller
                 /\ BatchAt(last'.batchId).currentOwner = last'.caller
                 /\ last'.party \in registeredNGOs
                 /\ \A sig \in SigInputs(h) :
                        initiateDonation(last'.caller, last'.batchId, last'.party, sig)
                        => recover(toEthSignedMessageHash(h), sig)
                             = [err |-> "", signer |-> last'.caller]
        /\ rewardVars' # rewardVars => Succeeded(last', "confirmDonation")
      ]_vars

\* C1 witness: after a verified donation, an organization named the null address
\* as retailer for a commitment with no pending entry, with its own signature,
\* and was turned down only by the ledger's mint.
C1_Witness ==
    /\ donationCount >= 1
    /\ last.op = "confirmDonation"
    /\ last.party = Null
    /\ ConfirmHash(last) \notin DOMAIN pendingDonations
    /\ last.err = "ERC20InvalidReceiver"

\* C2 (the claim as stated): no two Donation records carry the same
\* commitment hash.
C2_NoTwoDonationsPerCommitment ==
    \A i, j \in DOMAIN donations :
        i # j => donations[i].donationHash # donations[j].donationHash

\* C3: a successful confirmDonation removes exactly the pending entry of its
\* commitment hash; entries come back only through initiateDonation; and a
\* confirmDonation for a commitment with no pending entry (so also the one that
\* follows a successful confirmDonation with nothing initiated in between)
\* fails and changes no balance, aggregate, Donation record, counter or entry.
C3_ConfirmConsumesPending ==
    [][ /\ Succeeded(last', "confirmDonation") =>
             /\ ConfirmHash(last') \in DOMAIN pendingDonations
             /\ DOMAIN pendingDonations' = DOMAIN pendingDonations \ {ConfirmHash(last')}
             /\ \A h \in DOMAIN pendingDonations' :
                    pendingDonations'[h] = pendingDonations[h]
        /\ (last'.op = "confirmDonation"
              /\ ConfirmHash(last') \notin DOMAIN pendingDonations) =>
             /\ last'.err # ""
             /\ UNCHANGED <<rewardVars, pendingDonations>>
        /\ (Succeeded(last, "confirmDonation") /\ last'.op = "confirmDonation"
              /\ ConfirmHash(last') = ConfirmHash(last)) =>
             /\ last'.err # ""
             /\ UNCHANGED <<rewardVars, pendingDonations>>
        /\ DOMAIN pendingDonations' \ DOMAIN pendingDonations # {} =>
             Succeeded(last', "initiateDonation")
      ]_vars

\* C3 witness: the confirmDonation of an already verified commitment was
\* submitted again and turned down for want of a pending entry.
C3_Witness ==
    /\ last.op = "confirmDonation"
    /\ last.party # Null
    /\ last.err = "No pending donation"
    /\ \E i \in DOMAIN donations : donations[i].donationHash = ConfirmHash(last)

\* C4 (the claim as stated): in every Donation record retailer and ngo are
\* different accounts.
C4_RetailerIsNotNgo ==
    \A i \in DOMAIN donations : donations[i].retailer # donations[i].ngo

\* C6 (the claim as stated): a successful confirmDonation for a batch of
\* quantity q raises the retailer's balance by exactly q and the ngo's by
\* exactly floor(q*10/100), and appends exactly one Donation record, numbered
\* donationCount + 1, with the registry's quantity and weightKg.
C6_RewardArithmetic ==
    [][ Succeeded(last', "confirmDonation") =>
          LET q == BatchAt(last'.batchId).quantity IN
          /\ balances'[last'.party] = balances[last'.party] + q
          /\ balances'[last'.caller] = balances[last'.caller] + ((q * 10) \div 100)
          /\ donationCount' = donationCount + 1
          /\ DOMAIN donations' = DOMAIN donations \cup {donationCount + 1}
          /\ \A i \in DOMAIN donations : donations'[i] = donations[i]
          /\ donations'[donationCount + 1].quantity = q
          /\ donations'[donationCount + 1].weightKg = BatchAt(last'.batchId).weightKg
      ]_vars

\* C7: a confirmDonation whose signature does not recover to the caller is
\* rejected and changes nothing, and a correct call is accepted afterwards
\* exactly if it was before.
C7_BadSignatureRejected ==
    [][ \A c \in Users, id \in 1..DonationBatches, r \in Users \cup {Null} :
          (/\ last'.op = "confirmDonation"
           /\ last'.caller = c
           /\ last'.batchId = id
           /\ last'.party = r)
          => LET h == getDonationHash(id, r, c)
                 good == Signature(c, toEthSignedMessageHash(h)) IN
             \A sig \in SigInputs(h) :
                 (/\ recover(toEthSignedMessageHash(h), sig) # [err |-> "", signer |-> c]
                  /\ confirmDonation(c, id, r, sig))
                 => /\ last'.err # ""
                    /\ UNCHANGED <<rewardVars, pendingDonations>>
                    /\ confirmError(c, id, r, good)' = confirmError(c, id, r, good)
      ]_vars

\* C7 witness: a pending entry exists and a confirmDonation for it with
\* somebody else's signature was turned down; the entry is still there.
C7_Witness ==
    /\ last.op = "confirmDonation"
    /\ last.err = "Invalid NGO signature"
    /\ last.party # Null
    /\ PendingAt(ConfirmHash(last)) = last.party

\* what the Donation records say account a was minted, over records 1..n
RECURSIVE MintedTo(_, _)
MintedTo(a, n) ==
    IF n = 0 THEN 0
    ELSE MintedTo(a, n - 1)
         + (IF donations[n].retailer = a THEN donations[n].quantity ELSE 0)
         + (IF donations[n].ngo = a THEN (donations[n].quantity * 10) \div 100 ELSE 0)

\* the ledger and the Donation log agree: every recorded donation was minted
\* to both parties and nothing else was minted
LedgerMatchesDonations ==
    /\ DOMAIN donations = 1..donationCount
    /\ \A a \in Addresses : balances[a] = MintedTo(a, donationCount)

\* C8: confirmDonation is all-or-nothing: a call that fails at any step (the
\* status check, either mint) changes no balance, aggregate, Donation record,
\* counter or pending entry, and in every state each recorded donation has both
\* of its mints and each mint its record.
C8_ConfirmAllOrNothing ==
    /\ []LedgerMatchesDonations
    /\ [][ (last'.op = "confirmDonation" /\ last'.err # "")
              => UNCHANGED <<rewardVars, pendingDonations>> ]_vars

\* C8 witness: a pending entry exists, the verifier has lost its minter
\* capability and the confirmDonation failed at the first mint.
C8_Witness ==
    /\ last.op = "confirmDonation"
    /\ last.err = "Not authorized to mint"
    /\ PendingAt(ConfirmHash(last)) = last.party
    /\ BatchAt(last.batchId).status = READY_FOR_DONATION

\* ==================================================== the registry's life
\* The good signature of `signer` over the commitment (id, retailer, ngo)
GoodSig(signer, id, retailer, ngo) ==
    Signature(signer, toEthSignedMessageHash(getDonationHash(id, retailer, ngo)))

\* Every call that reaches the registry: registration, claim, mark, a direct
\* flag by a user, the admin or an oracle, the scanner's check and apply, the
\* admin's manual overrides, the passing of time, and a donation of a batch
\* from u1 to the organization u2.
NextRegistry ==
    \/ /\ nextBatchId <= MaxBatches
       /\ registerBatch(Maker, DeployTime + 3, 7, "gs1", 25)
    \/ \E c \in Users, id \in 1..MaxBatches : claimBatch(c, id)
    \/ \E c \in Users, id \in 1..MaxBatches : markForDonation(c, id)
    \/ \E c \in {"u2", Admin}, id \in 1..MaxBatches : flagNearExpiry(c, id)
    \/ \E f \in BOOLEAN : setOracle(Admin, "u2", f)
    \/ Tick
    \/ KeeperCheck
    \/ KeeperPerform
    \/ \E id \in 1..MaxBatches : manualFlagExpiry(Admin, id)
    \/ manualBatchCheck(Admin, [k \in 1..MaxBatches |-> k])
    \/ registerNGO(Admin, "u2", TRUE)
    \/ \E id \in 1..MaxBatches :
          initiateDonation("u1", id, "u2", GoodSig("u1", id, "u1", "u2"))
    \/ \E id \in 1..MaxBatches :
          /\ donationCount < 1
          /\ confirmDonation("u2", id, "u1", GoodSig("u2", id, "u1", "u2"))

SpecRegistry == Init /\ [][NextRegistry]_vars

\* msg.sender at the registry for the flag a transaction carries: the caller
\* of a direct flagNearExpiry, the keeper contract for the scanner's apply and
\* for the manual overrides
RegistrySender(tx) == IF tx.op = "flagNearExpiry" THEN tx.caller ELSE KeeperAddr

FlagOps == {"flagNearExpiry", "performUpkeep", "manualFlagExpiry", "manualBatchCheck"}

SweepRegistry(n, first) ==
    [id \in 1..n |->
        [expiry |-> DeployTime + 2, quantity |-> 7, manufacturer |-> Maker,
         currentOwner |-> IF id >= first THEN "u1" ELSE Maker,
         status |-> IF id >= first THEN IN_RETAIL ELSE MANUFACTURED,
         gs1Hash |-> "gs1", weightKg |-> 25]]

InitSweep ==
    \E n \in 1..SweepMax : \E first \in {1, n} :
        /\ now = DeployTime
        /\ batches = SweepRegistry(n, first)
        /\ nextBatchId = n + 1
        /\ authorizedOracles = {KeeperAddr}
        /\ batchToken = [id \in 1..n |-> SweepRegistry(n, first)[id].currentOwner]
        /\ balances = [a \in Addresses |-> 0]
        /\ totalSupply = 0
        /\ authorizedMinters = {VerifierAddr}
        /\ stakes = [a \in Addresses |-> NoStake]
        /\ taxReceipts = [a \in Addresses |-> <<>>]
        /\ certificates = <<>>
        /\ certOwner = <<>>
        /\ nextTokenId = 1
        /\ authorizedIssuers = {VerifierAddr}
        /\ companyCertificates = [a \in Addresses |-> <<>>]
        /\ donations = <<>>
        /\ donationCount = 0
        /\ pendingDonations = <<>>
        /\ registeredNGOs = {}
        /\ quarterCO2Saved = [q \in Quarters |-> 0]
        /\ quarterItemsDonated = [q \in Quarters |-> 0]
        /\ parentCompanyTreasury = Null
        /\ checkBatchSize = InitialCheckBatchSize
        /\ lastCheckedBatchId = 0
        /\ upkeep = NoUpkeep
        /\ inspected = <<>>
        /\ last = NoTx

\* The automation network checks and applies; time passes.
NextSweep ==
    \/ KeeperCheck
    \/ KeeperPerform
    \/ Tick

SpecSweep == InitSweep /\ [][NextSweep]_vars

\* The driver keeps running: a check that reports upkeep needed is eventually
\* made, and its result is eventually applied.
SpecKeeper == SpecSweep /\ WF_vars(KeeperCheck) /\ WF_vars(KeeperPerform)

\* C9: a batch that is IN_RETAIL inside its three-day window does not stay so
\* for ever: the driven scanner eventually flags it.
C9_EveryCandidateFlagged ==
    \A id \in 1..SweepMax : []<>(~needsFlag(id))

\* C10: when an apply has wrapped the cursor to 0, the scans applied since the
\* cursor was last 0 have read every id 1..N exactly once, in order.
C10_FullSweep ==
    (/\ last.op = "performUpkeep"
     /\ last.err = ""
     /\ lastCheckedBatchId = 0)
    => inspected = [k \in 1..(nextBatchId - 1) |-> k]

\* ================================================== the scanner's callers
\* the candidate lists an apply may be given
ApplyLists ==
    {<<>>} \cup {<<i>> : i \in 1..MaxBatches}
           \cup {<<i, j>> : i, j \in 1..MaxBatches}

\* Batches that expire in two or in five days are registered, claimed and
\* marked by u1; u2 (an oracle while the admin says so) and the admin flag
\* directly; the automation network checks and applies; u2 submits apply data
\* made by hand; the admin uses the manual overrides; time passes.
NextScanner ==
    \/ \E shelf \in {2, 5} :
          /\ nextBatchId <= MaxBatches
          /\ registerBatch(Maker, DeployTime + shelf, 7, "gs1", 25)
    \/ \E id \in 1..MaxBatches : claimBatch("u1", id)
    \/ \E id \in 1..MaxBatches : markForDonation("u1", id)
    \/ \E c \in {"u2", Admin}, id \in 1..MaxBatches : flagNearExpiry(c, id)
    \/ \E f \in BOOLEAN : setOracle(Admin, "u2", f)
    \/ Tick
    \/ KeeperCheck
    \/ KeeperPerform
    \/ \E ids \in ApplyLists, cursor \in 0..MaxBatches :
          performUpkeep("u2", ids, cursor, <<>>)
    \/ \E id \in 1..MaxBatches : manualFlagExpiry(Admin, id)
    \/ manualBatchCheck(Admin, [k \in 1..MaxBatches |-> k])

SpecScanner == Init /\ [][NextScanner]_vars

\* the step is the apply of the candidate list ids with new cursor `cursor`
\* submitted by caller c
IsApply(c, ids, cursor) ==
    /\ last'.op = "performUpkeep"
    /\ last'.caller = c
    /\ last'.batchId = cursor
    /\ performUpkeep(c, ids, cursor, IF c = Automation THEN upkeep.scanned ELSE <<>>)

\* C11 (the claim as stated): every apply completes, sets to NEAR_EXPIRY
\* exactly the listed ids whose flagNearExpiry precondition holds, leaves the
\* other batches as they were and advances the cursor.
C11_ApplyTolerant ==
    [][ \A c \in {"u2", Automation}, ids \in ApplyLists, cursor \in 0..(MaxBatches + 1) :
          IsApply(c, ids, cursor) =>
             /\ last'.err = ""
             /\ \A id \in DOMAIN batches :
                   batches'[id] =
                      IF /\ \E k \in DOMAIN ids : ids[k] = id
                         /\ flagNearExpiryError(KeeperAddr, batches, id) = ""
                      THEN flagged(batches, id)[id]
                      ELSE batches[id]
             /\ lastCheckedBatchId' = wrapCursor(cursor)
      ]_vars

\* C12 (the claim as stated): an apply submitted by an account that is neither
\* an oracle nor the admin is rejected and changes neither the cursor nor any
\* batch.
C12_ApplyGated ==
    [][ (last'.op = "performUpkeep" /\ last'.caller \notin authorizedOracles \cup {Admin})
          => /\ last'.err # ""
             /\ UNCHANGED <<lastCheckedBatchId, batches>>
      ]_vars

\* C13: a direct flagNearExpiry succeeds, and sets exactly the status of its
\* batch to NEAR_EXPIRY, if the caller is an oracle or the admin, the batch is
\* IN_RETAIL and now >= expiry - 3 days; otherwise (earlier, any other status,
\* an unregistered id, any other caller) it fails and no batch changes.
C13_FlagPrecondition ==
    [][ last'.op = "flagNearExpiry" =>
          LET id == last'.batchId
              b == BatchAt(id)
              ok == /\ last'.caller \in authorizedOracles \cup {Admin}
                    /\ b.status = IN_RETAIL
                    /\ now >= b.expiry - ThreeDays IN
          /\ ok => /\ last'.err = ""
                   /\ batches' = [batches EXCEPT ![id].status = NEAR_EXPIRY]
          /\ ~ok => /\ last'.err # ""
                    /\ UNCHANGED batches
      ]_vars

\* C13 witness: a direct flagNearExpiry has just succeeded at exactly
\* now = expiry - 3 days, on a batch registered before its window opened
C13_Witness ==
    /\ last.op = "flagNearExpiry"
    /\ last.err = ""
    /\ now = BatchAt(last.batchId).expiry - ThreeDays
    /\ now > DeployTime
    /\ BatchAt(last.batchId).status = NEAR_EXPIRY

\* C14 (the claim as stated): no batch becomes NEAR_EXPIRY at or after its
\* own expiry.
C14_NoFlagAfterExpiry ==
    [][ \A id \in DOMAIN batches :
          (batches[id].status # NEAR_EXPIRY /\ batches'[id].status = NEAR_EXPIRY)
          => now < batches[id].expiry
      ]_vars

\* ========================================================= the ledger's life
\* The admin and u2 grant or withdraw the admin's minter capability and mint
\* to u1; u1 stakes, unstakes and burns for tax receipts; u2, who never
\* staked, unstakes; days and four weeks pass.
NextToken ==
    \/ \E c \in {Admin, "u2"}, f \in BOOLEAN : setMinter(c, Admin, f)
    \/ \E op \in {"mintForDonation", "mintNGOReferral"}, c \in {Admin, "u2"} :
          /\ totalSupply + 3 <= MaxSupply
          /\ MintTx(op, c, "u1", 3)
    \/ \E amount \in {0, 2, 5} : stake("u1", amount)
    \/ \E c \in Users : unstake(c)
    \/ \E amount \in {1, 4} :
          /\ Len(taxReceipts["u1"]) < MaxReceipts
          /\ burnForTax("u1", amount)
    \/ Tick
    \/ Elapse(ThirtyDays - 2)

SpecToken == Init /\ [][NextToken]_vars

MintOps == {"mintForDonation", "mintNGOReferral"}

\* C15: a mint by a caller without minter capability (the admin included)
\* fails and leaves balances and total supply alone; a mint that succeeds was
\* called by a minter and credits exactly its amount to its beneficiary; the
\* supply grows in no other way; the capability changes only by a successful
\* setMinter of the admin, and a setMinter by anyone else changes nothing.
C15_MintNeedsCapability ==
    [][ /\ (last'.op \in MintOps /\ last'.caller \notin authorizedMinters)
             => /\ last'.err # ""
                /\ UNCHANGED <<balances, totalSupply>>
        /\ (last'.op \in MintOps /\ last'.err = "")
             => /\ last'.caller \in authorizedMinters
                /\ balances' = [balances EXCEPT ![last'.party] = @ + last'.batchId]
                /\ totalSupply' = totalSupply + last'.batchId
        /\ totalSupply' > totalSupply => (last'.op \in MintOps /\ last'.err = "")
        /\ authorizedMinters' # authorizedMinters
             => /\ Succeeded(last', "setMinter")
                /\ last'.caller = Admin
        /\ (last'.op = "setMinter" /\ last'.caller # Admin)
             => /\ last'.err # ""
                /\ UNCHANGED authorizedMinters
      ]_vars

\* C15 witness: the admin, whose capability was withdrawn after it had minted,
\* has just been refused a mint
C15_Witness ==
    /\ last.op \in MintOps
    /\ last.caller = Admin
    /\ last.err = "Not authorized to mint"
    /\ Admin \notin authorizedMinters
    /\ totalSupply > 0

\* C16: unstake fails and changes no stake and no balance when the caller has
\* no active stake or now < unlockTime; otherwise it succeeds, returns the
\* whole staked amount from the escrow to the caller and clears the stake; an
\* active stake unlocks thirty days after its start, and a successful stake
\* took from the caller exactly the amount that unstake returns.
C16_UnstakeAfterLock ==
    [][ /\ last'.op = "unstake" =>
             LET c == last'.caller
                 s == stakes[c] IN
             /\ (s.amount = 0 \/ now < s.unlockTime)
                  => /\ last'.err # ""
                     /\ UNCHANGED <<stakes, balances, totalSupply>>
             /\ (s.amount > 0 /\ now >= s.unlockTime)
                  => /\ last'.err = ""
                     /\ stakes' = [stakes EXCEPT ![c] = NoStake]
                     /\ balances' = [[balances EXCEPT ![c] = @ + s.amount]
                                        EXCEPT ![TokenAddr] = @ - s.amount]
                     /\ totalSupply' = totalSupply
        /\ Succeeded(last', "stake") =>
             /\ balances[last'.caller] = balances'[last'.caller] + stakes'[last'.caller].amount
             /\ stakes'[last'.caller].unlockTime = now + ThirtyDays
        /\ \A a \in Addresses :
             stakes[a].amount > 0 => stakes[a].unlockTime = stakes[a].stakedAt + ThirtyDays
      ]_vars

\* C16 witness: u1, refused at unlockTime - 1, has just unstaked at exactly
\* unlockTime (a stake made at deployment time unlocks thirty days later)
C16_Witness ==
    /\ Succeeded(last, "unstake")
    /\ now = DeployTime + ThirtyDays
    /\ stakes[last.caller] = NoStake
    /\ balances[last.caller] > 0

\* C17: stake fails and changes no balance and no stake when the caller has
\* an active stake or balance < amount; otherwise it moves exactly amount from
\* the caller to the escrow and records {amount, now, now + 30 days}; a stake
\* record changes only by its owner's successful stake (from no active stake)
\* or unstake.
C17_OneStakePerAddress ==
    [][ /\ last'.op = "stake" =>
             LET c == last'.caller
                 amount == last'.batchId IN
             /\ (stakes[c].amount > 0 \/ balances[c] < amount)
                  => /\ last'.err # ""
                     /\ UNCHANGED <<stakes, balances, totalSupply>>
             /\ ~(stakes[c].amount > 0 \/ balances[c] < amount)
                  => /\ last'.err = ""
                     /\ balances' = [[balances EXCEPT ![c] = @ - amount]
                                        EXCEPT ![TokenAddr] = @ + amount]
                     /\ stakes' = [stakes EXCEPT ![c] =
                            [amount |-> amount, stakedAt |-> now,
                             unlockTime |-> now + ThirtyDays]]
        /\ \A a \in Addresses :
             stakes'[a] # stakes[a] =>
                /\ last'.caller = a
                /\ last'.err = ""
                /\ \/ last'.op = "stake" /\ stakes[a].amount = 0
                   \/ last'.op = "unstake"
      ]_vars

\* C17 witness: a staker with enough balance for a second stake has just been
\* refused it
C17_Witness ==
    /\ last.op = "stake"
    /\ last.err = "Already staking"
    /\ stakes[last.caller].amount > 0
    /\ last.batchId > 0
    /\ balances[last.caller] >= last.batchId

\* C18: burnForTax with balance < amount fails and changes no balance, supply
\* or receipt; otherwise it destroys exactly amount of the caller's balance
\* and appends one receipt {caller, amount, now, hash over the prior receipt
\* count}; receipts already logged never change and are never removed.
C18_BurnForTax ==
    [][ /\ last'.op = "burnForTax" =>
             LET c == last'.caller
                 amount == last'.batchId IN
             /\ balances[c] < amount
                  => /\ last'.err # ""
                     /\ UNCHANGED <<balances, totalSupply, taxReceipts>>
             /\ balances[c] >= amount
                  => /\ last'.err = ""
                     /\ balances' = [balances EXCEPT ![c] = @ - amount]
                     /\ totalSupply' = totalSupply - amount
                     /\ taxReceipts' = [taxReceipts EXCEPT ![c] = Append(@,
                            [burner |-> c, amount |-> amount, timestamp |-> now,
                             receiptHash |->
                                 receiptHashOf(c, amount, Len(taxReceipts[c]))])]
        /\ \A a \in Addresses :
             /\ Len(taxReceipts'[a]) >= Len(taxReceipts[a])
             /\ \A i \in 1..Len(taxReceipts[a]) : taxReceipts'[a][i] = taxReceipts[a][i]
        /\ taxReceipts' # taxReceipts => Succeeded(last', "burnForTax")
      ]_vars

\* C18 witness: an account with a receipt in its log has just been refused a
\* burn larger than its balance
C18_Witness ==
    /\ last.op = "burnForTax"
    /\ last.err = "Insufficient balance"
    /\ Len(taxReceipts[last.caller]) >= 1
    /\ taxReceipts[last.caller][1].amount > 0

\* ================================================== the certificates' life
Companies == {"u1", "u2"}
Co2Values == {62, 125}
ItemValues == {7, 50}
PeriodStarts == {0, DeployTime}
PeriodEnds == {DeployTime, DeployTime + 1}

\* The admin and u2 (an issuer while the admin says so) issue certificates
\* to u1, to u2 or to nobody, for a period that may be empty; holders and
\* strangers try to transfer and to approve; time passes.
NextCert ==
    \/ \E c \in {Admin, "u2"}, company \in Companies \cup {Null}, co2 \in Co2Values,
          start \in PeriodStarts :
          /\ nextTokenId <= MaxCerts
          /\ issueCertificate(c, company, co2, 7, start, DeployTime)
    \/ \E c \in {Admin, "u2"}, f \in BOOLEAN : setIssuer(c, "u2", f)
    \/ \E c \in Users, from \in Users, to \in Users \cup {Null}, id \in 1..MaxCerts :
          transferFrom(c, from, to, id)
    \/ \E c \in Users, id \in 1..MaxCerts : approve(c, "u2", id)
    \/ \E c \in Users : setApprovalForAll(c, "u2", TRUE)
    \/ Tick

SpecCert == Init /\ [][NextCert]_vars

\* C19: the owner of a minted certificate never changes and is never removed;
\* a certificate gets its owner from the issueCertificate that minted it, the
\* beneficiary named there; every transfer and approval attempt fails and
\* changes nothing.
C19_Soulbound ==
    [][ /\ \A id \in DOMAIN certOwner :
              /\ id \in DOMAIN certOwner'
              /\ certOwner'[id] = certOwner[id]
        /\ \A id \in DOMAIN certOwner' \ DOMAIN certOwner :
              /\ Succeeded(last', "issueCertificate")
              /\ last'.batchId = id
              /\ certOwner'[id] = last'.party
              /\ certificates'[id].company = last'.party
        /\ last'.op \in {"transferFrom", "approve", "setApprovalForAll"}
              => /\ last'.err # ""
                 /\ UNCHANGED contractVars
      ]_vars

\* C19 witness: the holder of a certificate has just tried to transfer it to
\* another account and was refused as non-transferable
C19_Witness ==
    /\ last.op = "transferFrom"
    /\ last.err = "ESGSoulbound: Token is non-transferable"
    /\ ownerOf721(last.batchId) = last.caller
    /\ last.party # last.caller

\* the digest recomputed from a certificate record and its id
Recomputed(c, id) ==
    certificateHash(c.company, c.co2SavedKg, c.itemsDonated, c.quarterStart,
                    c.quarterEnd, c.issuedAt, id)

\* the records that differ from c in exactly one hashed field
Tampered(c) ==
    {[c EXCEPT !.company = v] : v \in (Companies \cup {Null}) \ {c.company}}
    \cup {[c EXCEPT !.co2SavedKg = v] : v \in Co2Values \ {c.co2SavedKg}}
    \cup {[c EXCEPT !.itemsDonated = v] : v \in ItemValues \ {c.itemsDonated}}
    \cup {[c EXCEPT !.quarterStart = v] : v \in PeriodStarts \ {c.quarterStart}}
    \cup {[c EXCEPT !.quarterEnd = v] : v \in PeriodEnds \ {c.quarterEnd}}
    \cup {[c EXCEPT !.issuedAt = v] :
             v \in (DeployTime..(DeployTime + MaxTicks)) \ {c.issuedAt}}

\* C20: for every issued certificate the digest recomputed from its stored
\* fields and its id is the stored verificationHash; a record that differs in
\* one field, or the same record under another id, recomputes to another
\* digest; verifyCertificate reports exists = true with the stored hash for an
\* issued id and exists = false for every id never issued.
C20_CertificateHash ==
    /\ \A id \in DOMAIN certificates :
          LET c == certificates[id] IN
          /\ Recomputed(c, id) = c.verificationHash
          /\ \A t \in Tampered(c) : Recomputed(t, id) # c.verificationHash
          /\ \A other \in (0..(MaxCerts + 1)) \ {id} :
                Recomputed(c, other) # c.verificationHash
          /\ verifyCertificate(id) = [exists |-> TRUE, verificationHash |-> c.verificationHash]
    /\ \A id \in (0..(MaxCerts + 1)) \ DOMAIN certificates :
          verifyCertificate(id).exists = FALSE

\* C20 witness: two certificates issued with the same beneficiary, figures and
\* period carry different digests
C20_Witness ==
    \E i, j \in DOMAIN certificates :
        /\ i # j
        /\ certificates[i].company = certificates[j].company
        /\ certificates[i].co2SavedKg = certificates[j].co2SavedKg
        /\ certificates[i].quarterStart = certificates[j].quarterStart
        /\ certificates[i].issuedAt = certificates[j].issuedAt
        /\ certificates[i].verificationHash # certificates[j].verificationHash

\* -------------------------------------------- the impact accounting, end to end
\* The maker registers batches (also with a quantity of zero or an expiry that
\* is not in the future); u1 claims, marks and initiates; the admin registers
\* the organization u2 and revokes it; u2 confirms with its own signature or
\* with bytes that are no signature; the admin sets the treasury; the admin and
\* u1 ask for quarterly certificates and call the certificate contract
\* directly; two days pass, which crosses the quarter boundary. Only the first
\* batch is claimed and donated, which the registry allows more than once.
NextImpact ==
    \/ \E q \in {0, 7}, e \in {now, DeployTime + 10} :
          /\ nextBatchId <= MaxBatches
          /\ registerBatch(Maker, e, q, "gs1", 25)
    \/ \E id \in 1..DonationBatches : claimBatch("u1", id)
    \/ \E id \in 1..DonationBatches : markForDonation("u1", id)
    \/ \E f \in BOOLEAN : registerNGO(Admin, "u2", f)
    \/ \E id \in 1..DonationBatches :
          initiateDonation("u1", id, "u2", GoodSig("u1", id, "u1", "u2"))
    \/ \E id \in 1..DonationBatches :
       \E sig \in {GoodSig("u2", id, "u1", "u2"), Malformed} :
          /\ donationCount < MaxDonations
          /\ confirmDonation("u2", id, "u1", sig)
    \/ \E c \in {Admin, "u2"} : setParentCompanyTreasury(c, "u1")
    \/ \E c \in {Admin, "u1"}, q \in Quarters :
          /\ nextTokenId <= MaxCerts
          /\ issueQuarterlyCertificate(c, q)
    \/ \E c \in {Admin, "u1"}, qs \in {now - 1, now} :
          /\ nextTokenId <= MaxCerts
          /\ issueCertificate(c, "u1", 1, 1, qs, now)
    \/ now = DeployTime /\ Elapse(2)

SpecImpact == Init /\ [][NextImpact]_vars

\* C21: a call of issueQuarterlyCertificate succeeds only for the admin; with
\* both aggregates of the quarter at zero it fails and no certificate is issued;
\* a failed call changes nothing; a successful call issues exactly one new
\* certificate that carries the quarter's two aggregates, leaves every quarter's
\* aggregates as they were, and leaves the same call able to succeed again with
\* the same totals.
C21_QuarterlyCertificate ==
    [][\A c \in EOAs, q \in Quarters :
          issueQuarterlyCertificate(c, q) =>
              LET co2 == quarterCO2Saved[q]
                  items == quarterItemsDonated[q] IN
              /\ (last'.err = "" => c = Admin)
              /\ (co2 = 0 /\ items = 0 => last'.err # "")
              /\ (last'.err # "" => UNCHANGED <<now, contractVars>>)
              /\ (last'.err = "" =>
                     /\ nextTokenId' = nextTokenId + 1
                     /\ DOMAIN certificates' = DOMAIN certificates \cup {nextTokenId}
                     /\ \A id \in DOMAIN certificates : certificates'[id] = certificates[id]
                     /\ certificates'[nextTokenId].co2SavedKg = co2
                     /\ certificates'[nextTokenId].itemsDonated = items
                     /\ quarterCO2Saved' = quarterCO2Saved
                     /\ quarterItemsDonated' = quarterItemsDonated
                     /\ issueQuarterlyError(Admin, q)' = ""
                     /\ QuarterRead(quarterCO2Saved, q)' = co2
                     /\ QuarterRead(quarterItemsDonated, q)' = items)]_vars

\* the quarterly call has succeeded twice and both certificates carry the same
\* non-zero totals
C21_Witness ==
    /\ Succeeded(last, "issueQuarterlyCertificate")
    /\ nextTokenId = 3
    /\ \A id \in {1, 2} :
          /\ certificates[id].company = parentCompanyTreasury
          /\ certificates[id].quarterStart = certificates[id].issuedAt - NinetyDays
    /\ certificates[1].co2SavedKg = certificates[2].co2SavedKg
    /\ certificates[1].itemsDonated = certificates[2].itemsDonated
    /\ certificates[1].co2SavedKg > 0
    /\ quarterCO2Saved[last.batchId] = certificates[2].co2SavedKg

\* ------------------------------------------- the registry and its credentials
\* The maker registers batches (also with a quantity of zero or an expiry that
\* is not in the future); the maker and the users move a batch's ERC-1155
\* token with the library's public safeTransferFrom; the users claim and mark,
\* also ids that were never registered; the admin flags, directly and through
\* the keeper's manual override.
NextOwnership ==
    \/ \E q \in {0, 7}, e \in {now, DeployTime + 3} :
          /\ nextBatchId <= MaxBatches
          /\ registerBatch(Maker, e, q, "gs1", 25)
    \/ \E c \in {Maker} \cup Users, to \in Users, id \in 1..MaxBatches :
          safeTransferFrom(c, to, id)
    \/ \E c \in Users, id \in 1..MaxBatches : claimBatch(c, id)
    \/ \E c \in Users, id \in 1..MaxBatches : markForDonation(c, id)
    \/ \E id \in 1..MaxBatches : flagNearExpiry(Admin, id)
    \/ \E id \in 1..MaxBatches : manualFlagExpiry(Admin, id)

SpecOwnership == Init /\ [][NextOwnership]_vars

\* C22: a claim of a registered batch whose status is MANUFACTURED succeeds for
\* every caller and sets the owner to the caller and the status to IN_RETAIL,
\* whatever happened before, transfers of the batch's token included; a claim
\* of an id that was never registered fails.
C22_ClaimNeedsOnlyStatus ==
    [][\A c \in Users, id \in 1..MaxBatches :
          claimBatch(c, id) =>
              IF id \in DOMAIN batches
              THEN batches[id].status = MANUFACTURED =>
                       /\ last'.err = ""
                       /\ batches'[id].currentOwner = c
                       /\ batches'[id].status = IN_RETAIL
              ELSE last'.err # ""]_vars

\* C23: a batch is claimed at most once. A claim succeeds only on a batch in
\* MANUFACTURED and leaves it IN_RETAIL; a batch that has left MANUFACTURED never
\* returns to it and keeps its recorded owner under every operation; a claim of
\* such a batch, by the same or by another caller, fails and leaves the owner
\* and the status as they were.
C23_ClaimedOnce ==
    [][\A id \in DOMAIN batches :
          /\ \A c \in Users :
                claimBatch(c, id) /\ last'.err = "" =>
                    /\ batches[id].status = MANUFACTURED
                    /\ batches'[id].status = IN_RETAIL
                    /\ batches'[id].currentOwner = c
          /\ batches[id].status # MANUFACTURED =>
                /\ batches'[id].status # MANUFACTURED
                /\ batches'[id].currentOwner = batches[id].currentOwner
                /\ \A c \in Users :
                      claimBatch(c, id) =>
                          /\ last'.err # ""
                          /\ batches'[id] = batches[id]]_vars

\* a second claim of a claimed batch, by the other user, has just failed
C23_Witness ==
    /\ last.op = "claimBatch"
    /\ last.err = "Batch not available"
    /\ last.batchId \in DOMAIN batches
    /\ batches[last.batchId].status = IN_RETAIL
    /\ batches[last.batchId].currentOwner \in Users \ {last.caller}

\* C24: registerBatch with an expiry that is not in the future or a quantity of
\* zero is rejected and creates no batch; quantity, expiry, maker, content hash
\* and weight of a batch never change; no operation deletes a batch.
C24_RegisterAndImmutables ==
    [][/\ \A q \in {0, 7}, e \in {now, DeployTime + 3} :
             registerBatch(Maker, e, q, "gs1", 25) /\ (e <= now \/ q = 0) =>
                 /\ last'.err # ""
                 /\ batches' = batches
                 /\ nextBatchId' = nextBatchId
                 /\ batchToken' = batchToken
       /\ DOMAIN batches \subseteq DOMAIN batches'
       /\ \A id \in DOMAIN batches :
             /\ batches'[id].quantity = batches[id].quantity
             /\ batches'[id].expiry = batches[id].expiry
             /\ batches'[id].manufacturer = batches[id].manufacturer
             /\ batches'[id].gs1Hash = batches[id].gs1Hash
             /\ batches'[id].weightKg = batches[id].weightKg]_vars

\* a registration with a quantity of zero has just been rejected while a batch
\* registered earlier has been claimed, flagged and marked
C24_Witness ==
    /\ last.op = "registerBatch"
    /\ last.err = "Quantity must be positive"
    /\ 1 \in DOMAIN batches
    /\ batches[1].status = READY_FOR_DONATION
    /\ batches[1].currentOwner # batches[1].manufacturer
    /\ batches[1].quantity = 7
    /\ nextBatchId = 2

\* the ids issued so far, per kind
BatchIds == DOMAIN batches
DonationIds == DOMAIN donations
CertificateIds == DOMAIN certificates

\* C25: batch ids, donation ids and certificate ids are three independent
\* sequences 1, 2, 3, ...: the ids issued of each kind are 1..k with k the
\* number of successes of that kind's creating call; a failed registerBatch,
\* confirmDonation or certificate issue consumes no id; a success takes the next
\* id of its own kind and leaves the other two sequences alone.
C25_ThreeSequences ==
    [][/\ BatchIds' = 1..(nextBatchId' - 1)
       /\ DonationIds' = 1..donationCount'
       /\ CertificateIds' = 1..(nextTokenId' - 1)
       /\ (last'.err # "" =>
              /\ BatchIds' = BatchIds
              /\ DonationIds' = DonationIds
              /\ CertificateIds' = CertificateIds)
       /\ IF Succeeded(last', "registerBatch") /\ nextBatchId' # nextBatchId
          THEN BatchIds' = BatchIds \cup {Cardinality(BatchIds) + 1}
               /\ Cardinality(BatchIds') = Cardinality(BatchIds) + 1
          ELSE BatchIds' = BatchIds
       /\ IF Succeeded(last', "confirmDonation") /\ donationCount' # donationCount
          THEN DonationIds' = DonationIds \cup {Cardinality(DonationIds) + 1}
               /\ Cardinality(DonationIds') = Cardinality(DonationIds) + 1
          ELSE DonationIds' = DonationIds
       /\ IF /\ last'.op \in {"issueCertificate", "issueQuarterlyCertificate"}
             /\ last'.err = "" /\ nextTokenId' # nextTokenId
          THEN CertificateIds' = CertificateIds \cup {Cardinality(CertificateIds) + 1}
               /\ Cardinality(CertificateIds') = Cardinality(CertificateIds) + 1
          ELSE CertificateIds' = CertificateIds
       /\ \A q \in {0, 7}, e \in {now, DeployTime + 10} :
             registerBatch(Maker, e, q, "gs1", 25) /\ last'.err = "" =>
                 nextBatchId' = nextBatchId + 1
       /\ \A sig \in {GoodSig("u2", 1, "u1", "u2"), Malformed} :
             confirmDonation("u2", 1, "u1", sig) /\ last'.err = "" =>
                 donationCount' = donationCount + 1
       /\ \A c \in {Admin, "u1"}, q \in Quarters :
             issueQuarterlyCertificate(c, q) /\ last'.err = "" =>
                 nextTokenId' = nextTokenId + 1
       /\ \A c \in {Admin, "u1"}, qs \in {now - 1, now} :
             issueCertificate(c, "u1", 1, 1, qs, now) /\ last'.err = "" =>
                 nextTokenId' = nextTokenId + 1]_vars

\* the three sequences have advanced by different amounts and a confirmation
\* has just failed without taking an id
C25_Witness ==
    /\ last.op = "confirmDonation"
    /\ last.err # ""
    /\ BatchIds = {1, 2}
    /\ DonationIds = {1}
    /\ CertificateIds = {1, 2}

\* C26 (the claim as stated): the carbon credit of a confirmed donation is
\* weightKg x 2.5, that is ten times the recorded credit is 25 times the
\* batch's weight, in the Donation record and in the increment of the
\* quarter's co2 aggregate (62.5 for 25 kg).
C26_CarbonCredits ==
    [][Succeeded(last', "confirmDonation") =>
          LET w == BatchAt(last'.batchId).weightKg
              q == getCurrentQuarter IN
          /\ 10 * donations'[donationCount'].carbonCredits = 25 * w
          /\ 10 * (quarterCO2Saved'[q] - quarterCO2Saved[q]) = 25 * w]_vars

\* C27 (the claim as stated): after a successful confirmDonation the registry
\* status of the donated batch is DONATED.
C27_MarkedDonated ==
    Succeeded(last, "confirmDonation") => BatchAt(last.batchId).status = DONATED

\* C28: initiateDonation(batchId, ngo, sig) succeeds exactly when ngo is a
\* registered organization, the caller is the batch's recorded owner, the
\* status is READY_FOR_DONATION and sig recovers to the caller over the signed
\* commitment hash of (batchId, caller, ngo); a failed call leaves every pending
\* entry and all other state as it was; a successful call stores the caller
\* under that commitment hash and changes nothing else.
C28_InitiateChecks ==
    [][\A c \in Users, id \in 1..DonationBatches, n \in Users :
          (last'.op = "initiateDonation" /\ last'.caller = c
             /\ last'.batchId = id /\ last'.party = n) =>
          \A sig \in SigInputs(getDonationHash(id, c, n)) :
              initiateDonation(c, id, n, sig) =>
                  LET h == getDonationHash(id, c, n)
                      rec == recover(toEthSignedMessageHash(h), sig)
                      ok == /\ n \in registeredNGOs
                            /\ BatchAt(id).currentOwner = c
                            /\ BatchAt(id).status = READY_FOR_DONATION
                            /\ rec.err = "" /\ rec.signer = c IN
                  /\ (last'.err = "" <=> ok)
                  /\ (~ok => UNCHANGED <<now, contractVars>>)
                  /\ (ok =>
                         /\ DOMAIN pendingDonations' = DOMAIN pendingDonations \cup {h}
                         /\ pendingDonations'[h] = c
                         /\ \A g \in DOMAIN pendingDonations \ {h} :
                               pendingDonations'[g] = pendingDonations[g]
                         /\ UNCHANGED <<now, esgVars, registryVars, tokenVars, keeperVars,
                                        donations, donationCount, registeredNGOs,
                                        quarterCO2Saved, quarterItemsDonated,
                                        parentCompanyTreasury>>)]_vars

\* an initiation has stored the caller under its commitment hash while an
\* entry of another commitment is pending
C28_Witness ==
    /\ Succeeded(last, "initiateDonation")
    /\ PendingAt(InitiateHash(last)) = last.caller
    /\ BatchAt(last.batchId).currentOwner = last.caller
    /\ last.party \in registeredNGOs
    /\ \E g \in DOMAIN pendingDonations :
          g # InitiateHash(last) /\ pendingDonations[g] # Null

\* C29: confirmDonation validates against the state it runs in. While the
\* organization is not registered its confirmation fails, mints nothing and
\* leaves every pending entry in place; a pending entry is removed by nothing
\* but the successful confirmation of its own commitment, whatever else happens
\* and however much time passes; and once the organization is registered again,
\* the confirmation of a commitment whose entry is still pending, with the
\* organization's signature and the batch still READY_FOR_DONATION, succeeds.
C29_StalePending ==
    [][/\ \A h \in DOMAIN pendingDonations :
             pendingDonations[h] # Null /\ PendingAt(h)' # pendingDonations[h] =>
                 Succeeded(last', "confirmDonation") /\ ConfirmHash(last') = h
       /\ \A id \in 1..DonationBatches :
             \A sig \in {GoodSig("u2", id, "u1", "u2"), Malformed} :
                 confirmDonation("u2", id, "u1", sig) =>
                     /\ ("u2" \notin registeredNGOs =>
                            /\ last'.err = "Not a registered NGO"
                            /\ UNCHANGED <<now, contractVars>>)
                     /\ ("u2" \in registeredNGOs
                           /\ PendingAt(getDonationHash(id, "u1", "u2")) = "u1"
                           /\ sig = GoodSig("u2", id, "u1", "u2")
                           /\ BatchAt(id).status = READY_FOR_DONATION =>
                               /\ last'.err = ""
                               /\ balances'["u1"] > balances["u1"]
                               /\ PendingAt(getDonationHash(id, "u1", "u2"))' = Null)]_vars

\* a confirmation by the organization has just failed because its registration
\* was revoked after the initiation was accepted; the entry is still pending
\* and time has passed since deployment
C29_Witness ==
    /\ last.op = "confirmDonation"
    /\ last.err = "Not a registered NGO"
    /\ last.caller \notin registeredNGOs
    /\ PendingAt(ConfirmHash(last)) = last.party
    /\ last.party # Null
    /\ now > DeployTime

\* the ids of the candidate list
Listed(ids) == {ids[k] : k \in DOMAIN ids}

\* the batches a step moves to NEAR_EXPIRY
MovedToNearExpiry ==
    {id \in DOMAIN batches :
        batches[id].status # NEAR_EXPIRY /\ batches'[id].status = NEAR_EXPIRY}

\* C30 (the claim as stated): whatever was submitted between the scan and the
\* apply, the apply leaves every listed batch that is no longer IN_RETAIL
\* exactly as it finds it, moves every listed batch that is IN_RETAIL inside its
\* three-day window to NEAR_EXPIRY, and when it completes it reports as flagged
\* the number of batches it moved to NEAR_EXPIRY itself.
C30_ApplyAfterRace ==
    [][ \A c \in {"u2", Automation}, ids \in ApplyLists, cursor \in 0..(MaxBatches + 1) :
          IsApply(c, ids, cursor) =>
             /\ \A id \in Listed(ids) \cap DOMAIN batches :
                   /\ batches[id].status # IN_RETAIL => batches'[id] = batches[id]
                   /\ (/\ batches[id].status = IN_RETAIL
                       /\ now >= batches[id].expiry - ThreeDays
                       /\ now < batches[id].expiry) =>
                          batches'[id].status = NEAR_EXPIRY
             /\ (last'.err = "" =>
                    flaggedCount(batches, ids, 1) = Cardinality(MovedToNearExpiry))
      ]_vars

\* the registered ids in (c, c + P] that are IN_RETAIL with now in
\* [expiry - 3 days, expiry), for the persisted cursor c and page size P
PageCandidates ==
    {id \in DOMAIN batches :
        /\ lastCheckedBatchId < id /\ id <= lastCheckedBatchId + checkBatchSize
        /\ batches[id].status = IN_RETAIL
        /\ now >= batches[id].expiry - ThreeDays
        /\ now < batches[id].expiry}

\* what the scan returns is exactly the page's candidates, each once, at most
\* a page of them, and needed exactly when there is one
ScanSelects ==
    LET res == checkUpkeep IN
    /\ Listed(res.batchIds) = PageCandidates
    /\ Len(res.batchIds) = Cardinality(PageCandidates)
    /\ Len(res.batchIds) <= checkBatchSize
    /\ res.upkeepNeeded <=> PageCandidates # {}

\* C31 (the claim as stated): checkUpkeep returns exactly the registered ids in
\* (cursor, cursor + pageSize] that are IN_RETAIL inside their three-day window,
\* at most a page of them, reports needed exactly when there is one, and the
\* new cursor it returns is the last id it inspected.
C31_ScanResult ==
    /\ ScanSelects
    /\ checkUpkeep.upkeepNeeded =>
           checkUpkeep.lastChecked = scanned[Len(scanned)]

\* ------------------------------------------------------ the scanner's cursor
\* Batches that expire in two days are registered and claimed; the automation
\* network checks and applies; u2 submits apply data made by hand, with any
\* candidate list and any cursor up to two past the highest id there can be;
\* the admin and u2 call resetLastChecked; the admin sets the page size to one
\* or back to fifty; time passes.
NextCursor ==
    \/ /\ nextBatchId <= MaxBatches
       /\ registerBatch(Maker, DeployTime + 2, 7, "gs1", 25)
    \/ \E id \in 1..MaxBatches : claimBatch("u1", id)
    \/ Tick
    \/ KeeperCheck
    \/ KeeperPerform
    \/ \E ids \in ApplyLists, cursor \in 0..(MaxBatches + 2) :
          performUpkeep("u2", ids, cursor, <<>>)
    \/ \E c \in {Admin, "u2"} : resetLastChecked(c)
    \/ \E size \in {1, InitialCheckBatchSize} : setCheckBatchSize(Admin, size)

SpecCursor == Init /\ [][NextCursor]_vars

\* the persisted cursor is 0 or strictly below the highest registered id, and
\* the scan reads registered ids only
CursorInRange ==
    /\ lastCheckedBatchId = 0 \/ lastCheckedBatchId < nextBatchId - 1
    /\ \A k \in DOMAIN scanned : scanned[k] \in DOMAIN batches

\* C32 (the claim as stated): after every apply the persisted cursor is 0 when
\* the supplied new cursor is at or past the highest registered id and is the
\* supplied new cursor otherwise; after every step the cursor is 0 or strictly
\* below the highest registered id and the scan inspects registered ids only.
C32_CursorWrap ==
    [][/\ \A c \in {"u2", Automation}, ids \in ApplyLists, cursor \in 0..(MaxBatches + 2) :
             IsApply(c, ids, cursor) =>
                 lastCheckedBatchId' = IF cursor >= nextBatchId - 1 THEN 0 ELSE cursor
       /\ CursorInRange']_vars

\* C33 (the claim as stated): the one ERC-1155 unit of every registered batch
\* is held by the account recorded as the batch's owner.
C33_CredentialWithOwner ==
    \A id \in DOMAIN batches :
        /\ balanceOf1155(batches[id].currentOwner, id) = 1
        /\ \A a \in Addresses \ {batches[id].currentOwner} : balanceOf1155(a, id) = 0

\* --------------------------------------------------- rewards and the ledger
\* One batch of ten items is registered, claimed, marked and donated by u1 to
\* the organization u2, more than once where the registry allows it; the admin
\* grants u2 the minter capability and withdraws it, and u2 mints directly;
\* u1 stakes, unstakes, transfers, burns and burns for tax; thirty days pass.
NextRewards ==
    \/ /\ nextBatchId <= DonationBatches
       /\ registerBatch(Maker, DeployTime + ThirtyDays + 10, 10, "gs1", 25)
    \/ claimBatch("u1", 1)
    \/ markForDonation("u1", 1)
    \/ registerNGO(Admin, "u2", TRUE)
    \/ initiateDonation("u1", 1, "u2", GoodSig("u1", 1, "u1", "u2"))
    \/ /\ donationCount < MaxDonations
       /\ confirmDonation("u2", 1, "u1", GoodSig("u2", 1, "u1", "u2"))
    \/ \E f \in BOOLEAN : setMinter(Admin, "u2", f)
    \/ /\ totalSupply <= MaxSupply
       /\ MintTx("mintForDonation", "u2", "u1", 10)
    \/ stake("u1", 10)
    \/ unstake("u1")
    \/ transfer("u1", "u2", 10)
    \/ burn("u1", 10)
    \/ /\ Len(taxReceipts["u1"]) < MaxReceipts
       /\ burnForTax("u1", 10)
    \/ now = DeployTime /\ Elapse(ThirtyDays)

SpecRewards == Init /\ [][NextRewards]_vars

\* the reward units one Donation record stands for
RewardUnits(d) == d.quantity + ((d.quantity * 10) \div 100)

\* C34: while the verifier is the only holder of the minter capability, the
\* units ever minted are those of the Donation records: a step that adds no
\* record mints nothing, a step that adds a record adds exactly one and raises
\* the total supply by quantity + floor(quantity * 10 / 100) of that record,
\* the total supply falls only by the amount of a burn, and stake, unstake and
\* transfer leave the total supply unchanged.
C34_MintedMatchesDonations ==
    [][authorizedMinters \subseteq {VerifierAddr} =>
          /\ donationCount' \in {donationCount, donationCount + 1}
          /\ (donationCount' = donationCount => totalSupply' <= totalSupply)
          /\ (donationCount' = donationCount + 1 =>
                 /\ totalSupply' = totalSupply + RewardUnits(donations'[donationCount'])
                 /\ \A i \in DOMAIN donations : donations'[i] = donations[i])
          /\ (totalSupply' < totalSupply =>
                 /\ last'.op \in {"burn", "burnForTax"}
                 /\ last'.err = ""
                 /\ totalSupply' = totalSupply - last'.batchId)
          /\ (last'.op \in {"stake", "unstake", "transfer"} =>
                 totalSupply' = totalSupply)]_vars

\* two donations of ten items were rewarded with 22 units, ten of them were
\* burned for tax, and an unstake has just returned the other ten to u1
C34_Witness ==
    /\ Succeeded(last, "unstake")
    /\ authorizedMinters = {VerifierAddr}
    /\ donationCount = 2
    /\ Len(taxReceipts["u1"]) = 1
    /\ totalSupply = 12
    /\ balances["u1"] = 10
    /\ balances["u2"] = 2

C36_NoExpiredDonation ==
    /\ \A i \in DOMAIN donations :
          donations[i].verifiedAt < BatchAt(donations[i].batchId).expiry
    /\ (last.op \in {"markForDonation", "initiateDonation", "confirmDonation"}
          /\ last.err = "") => now < BatchAt(last.batchId).expiry

\* the sum of f[i] over the finite set of indices S
RECURSIVE SumOver(_, _)
SumOver(f, S) ==
    IF S = {} THEN 0
    ELSE LET i == CHOOSE j \in S : TRUE IN f[i] + SumOver(f, S \ {i})

\* the certificates issued through issueQuarterlyCertificate: those whose
\* period is the ninety days before their issue
QuarterlyCertificates ==
    {id \in DOMAIN certificates :
        certificates[id].quarterStart = certificates[id].issuedAt - NinetyDays}

CertifiedItems ==
    SumOver([id \in DOMAIN certificates |-> certificates[id].itemsDonated],
            QuarterlyCertificates)

CertifiedCO2 ==
    SumOver([id \in DOMAIN certificates |-> certificates[id].co2SavedKg],
            QuarterlyCertificates)

DonatedItems ==
    SumOver([i \in DOMAIN donations |-> donations[i].quantity], DOMAIN donations)

DonatedCO2 ==
    SumOver([i \in DOMAIN donations |-> donations[i].carbonCredits], DOMAIN donations)

\* C37 (the claim as stated): the items and the co2 certified by the quarterly
\* certificates never exceed the items and the carbon credits of the Donation
\* records.
C37_CertifiedWithinVerified ==
    /\ CertifiedItems <= DonatedItems
    /\ CertifiedCO2 <= DonatedCO2

\* C38: after every step the quarterly item aggregates add up to the
\* quantities of the Donation records and the quarterly co2 aggregates to
\* their carbon credits, over all quarters, and no step lowers an aggregate.
C38_AggregatesMatchLog ==
    [][/\ SumOver(quarterItemsDonated', DOMAIN quarterItemsDonated') = DonatedItems'
       /\ SumOver(quarterCO2Saved', DOMAIN quarterCO2Saved') = DonatedCO2'
       /\ \A q \in DOMAIN quarterItemsDonated :
             /\ quarterItemsDonated'[q] >= quarterItemsDonated[q]
             /\ quarterCO2Saved'[q] >= quarterCO2Saved[q]]_vars

\* donations were verified in two different quarters and a quarterly
\* certificate has been issued since
C38_Witness ==
    /\ donationCount = 2
    /\ Cardinality({q \in DOMAIN quarterItemsDonated : quarterItemsDonated[q] > 0}) = 2
    /\ QuarterlyCertificates # {}
    /\ Succeeded(last, "issueQuarterlyCertificate")

\* ------------------------------------------------------ the staking escrow
\* The admin grants itself the minter capability and mints to both users and
\* to the ledger's own address; both users stake (also an amount of zero),
\* unstake, transfer to each other and to the ledger's address, burn and burn
\* for tax; thirty days pass.
NextEscrow ==
    \/ setMinter(Admin, Admin, TRUE)
    \/ \E to \in Users \cup {TokenAddr} :
          /\ totalSupply + 2 <= MaxSupply
          /\ MintTx("mintForDonation", Admin, to, 2)
    \/ \E c \in Users, amount \in {0, 2} : stake(c, amount)
    \/ \E c \in Users : unstake(c)
    \/ \E c \in Users :
          \E to \in (Users \ {c}) \cup {TokenAddr} : transfer(c, to, 1)
    \/ \E c \in Users : burn(c, 1)
    \/ /\ Len(taxReceipts["u1"]) < 1
       /\ burnForTax("u1", 1)
    \/ now = DeployTime /\ Elapse(ThirtyDays)

SpecEscrow == Init /\ [][NextEscrow]_vars

\* the amounts of all stake records (an inactive record has amount zero)
StakedTotal == SumOver([a \in DOMAIN stakes |-> stakes[a].amount], DOMAIN stakes)

\* C39: in every reachable state the balance the token contract holds at its
\* own address is at least the sum of the amounts of all active stakes, and no
\* unstake call fails for lack of balance at the contract's address.
C39_EscrowSolvent ==
    /\ balances[TokenAddr] >= StakedTotal
    /\ last.op = "unstake" => last.err \in {"", "No active stake", "Still locked"}

\* a user has taken a stake back while the other user's stake is still held
C39_Witness ==
    /\ last.op = "unstake" /\ last.err = "" /\ last.caller = "u1"
    /\ stakes["u1"].amount = 0
    /\ stakes["u2"].amount > 0

====
